---- MODULE Spec2Model ----
(***************************************************************************)
(* State-machine model of the tile-pipelined VCNPU simulator of            *)
(* src/Sim/vcnpuprop.py: BankedGroupFIFO, DMAEngine, SplitPrefetcher,      *)
(* ProducerSFTM, ConsumerDPM and Simulator.                                *)
(*                                                                         *)
(* Python objects are records; a method is an operator that takes the      *)
(* object (and its arguments) and returns the updated object, together     *)
(* with the method's return value where it has one.  Python's None is 0    *)
(* wherever the proper values are positive integers (gids, tags, entry     *)
(* ids).  A dict is a function whose DOMAIN is the set of keys.            *)
(*                                                                         *)
(* Three specifications share the variables:                               *)
(*   Spec          Simulator.run: one action per Simulator.step            *)
(*   SpecFifo      a BankedGroupFIFO under arbitrary pushes and pops       *)
(*   SpecPrefetch  a SplitPrefetcher and its DMAEngine under arbitrary     *)
(*                 submissions, issue steps and DMA steps                  *)
(***************************************************************************)
EXTENDS Integers, Sequences, FiniteSets, TLC

VARIABLES
    cfg,            \* constructor arguments of the objects (fixed in a run)
    pc,             \* position of Simulator.run: "run" | "done"
    cycle,          \* Simulator.cycle
    fifos,          \* Simulator.fifos: unit -> BankedGroupFIFO
    producers,      \* Simulator.producers: unit -> ProducerSFTM
    consumers,      \* Simulator.consumers: unit -> ConsumerDPM
    tiles,          \* the TileGroup objects: unit -> sequence indexed by gid
    tile_registry,  \* Simulator.tile_registry: gid -> unit whose tile object it holds
    unit_cycles,    \* Simulator.unit_cycles
    pf,             \* Simulator.prefetcher (SplitPrefetcher) and its PTEntry objects
    dma,            \* Simulator.dma (DMAEngine)
    stats,          \* Simulator.stats
    drv             \* the caller's counters in SpecFifo and SpecPrefetch

vars == <<cfg, pc, cycle, fifos, producers, consumers, tiles, tile_registry,
          unit_cycles, pf, dma, stats, drv>>

(***************************************************************************)
(* Bounds of the model.                                                    *)
(***************************************************************************)
MaxCycles == 40
LongRunCycles == 220
WideRunCycles == 60
LatencyRunCycles == 820
CappedRunCycles == 13
OrderRunCycles == 245
StuckHeadRunCycles == 1925
MaxNonzeros == 3
MaxIssues == 3
MaxEngineCycle == 7
MaxGroupsTotal == 3
MaxFifoPushes == 5
MaxFifoPops == 5
MaxBanks == 2
MaxSlots == 2
MaxSubmits == 3
MaxDmaCycle == 3
MaxEnqueued == 2

(***************************************************************************)
(* Program constants.                                                      *)
(***************************************************************************)
FRAME_COLS == 1920
FRAME_ROWS == 1080
CHANNELS == 36
BYTES_PER_PIXEL == 72
ROWS_PER_GROUP == 4
DEFAULT_BASE_PERIOD == 140
DEFAULT_DRAM_LATENCY == 800
DEFAULT_DRAM_BW_BYTES_PER_CYCLE == 1024
DEFAULT_MAX_OUTSTANDING == 8
DEFAULT_PTABLE_ENTRIES == 64
DEFAULT_COALESCE_BYTES == 16384
DRAM_ALIGNMENT == 4096
PIF == 12
POF == 4
SCU_MULTIPLIERS == 18
MU_C == 4
PRETU_LATENCY == 4
POSTTU_LATENCY == 4
SCU_PIPELINE_LATENCY == 2
DFCONV_INTERP_COST_PER_SAMPLE == 2
DFCONV_PE_COUNT == 64
PRODUCER_JITTER == 2
CONSUMER_JITTER == 4
DEFAULT_HALO_PIXELS == 4
MU_D == 6
NUM_CORES == 2
SFTM_INPUT_BUFFER_KB == 32
SFTM_OUTPUT_BUFFER_KB == 32
SFTM_NUM_BANKS == 4
ACTIVATION_BYTES == 2
EXTERNAL_BYTES_PER_CYCLE == 32
DEFAULT_TILE_INPUT_ROWS == 8
DEFAULT_TILE_OUTPUT_ROWS == 4

(***************************************************************************)
(* Arithmetic helpers.                                                     *)
(***************************************************************************)
Max(a, b) == IF a >= b THEN a ELSE b
Min(a, b) == IF a <= b THEN a ELSE b

\* math.ceil(a / b) for a >= 0, b > 0
CeilDiv(a, b) == (a + b - 1) \div b

\* int(round(a / b)) for a >= 0, b > 0: Python rounds halves to even
RoundDiv(a, b) ==
    LET q == a \div b
        r == a % b
    IN  IF 2 * r < b THEN q
        ELSE IF 2 * r > b THEN q + 1
        ELSE IF q % 2 = 0 THEN q ELSE q + 1

\* dict helpers
DictSet(d, k, v) == [x \in (DOMAIN d) \cup {k} |-> IF x = k THEN v ELSE d[x]]
DictDel(d, k) == [x \in (DOMAIN d) \ {k} |-> d[x]]
EmptyDict == [x \in {} |-> 0]

SeqToSet(s) == {s[i] : i \in 1..Len(s)}

\* max() of a non-empty list or array
SeqMax(f) == CHOOSE x \in {f[i] : i \in DOMAIN f} : \A j \in DOMAIN f : f[j] <= x

(***************************************************************************)
(* BankedGroupFIFO.  queue holds the gids of the unit's own TileGroup      *)
(* objects; bank_slots[bank][slot] is a gid or 0 (None).                   *)
(***************************************************************************)
BankedGroupFIFO_init(banks, group_slots_per_bank) ==
    [banks |-> banks,
     group_slots_per_bank |-> group_slots_per_bank,
     max_groups |-> banks * group_slots_per_bank,
     queue |-> << >>,
     bank_slots |-> [b \in 0..(banks - 1) |-> [s \in 0..(group_slots_per_bank - 1) |-> 0]],
     valid_bits |-> [b \in 0..(banks - 1) |-> [s \in 0..(group_slots_per_bank - 1) |-> FALSE]],
     tile_to_slot |-> EmptyDict,
     push_attempts |-> 0,
     push_success |-> 0,
     pop_attempts |-> 0,
     pop_success |-> 0,
     overflow_count |-> 0]

BankedGroupFIFO_can_push(f) == Len(f.queue) < f.max_groups

\* occupancy() counting one tile too many
BankedGroupFIFO_occupancy_off_by_one(f) == Len(f.queue) + 1

BankedGroupFIFO_occupancy(f) == Len(f.queue)

\* push(tile) -> bool: returns [fifo, ok]
BankedGroupFIFO_push(f, gid) ==
    LET f1 == [f EXCEPT !.push_attempts = @ + 1]
        slot_idx == Len(f.queue)
        bank == slot_idx % f.banks
        local_slot == slot_idx \div f.banks
    IN  IF ~BankedGroupFIFO_can_push(f1)
        THEN [fifo |-> [f1 EXCEPT !.overflow_count = @ + 1], ok |-> FALSE]
        ELSE IF bank < 0 \/ bank >= f.banks \/ local_slot < 0
                \/ local_slot >= f.group_slots_per_bank
        THEN [fifo |-> [f1 EXCEPT !.overflow_count = @ + 1], ok |-> FALSE]
        ELSE [fifo |-> [f1 EXCEPT !.bank_slots[bank][local_slot] = gid,
                                  !.valid_bits[bank][local_slot] = TRUE,
                                  !.tile_to_slot = DictSet(@, gid, <<bank, local_slot>>),
                                  !.queue = Append(@, gid),
                                  !.push_success = @ + 1],
              ok |-> TRUE]

\* peek() -> gid of the head, 0 for None
BankedGroupFIFO_peek(f) == IF f.queue = << >> THEN 0 ELSE Head(f.queue)

\* pop() that takes the tile pushed last
BankedGroupFIFO_pop_newest(f) ==
    IF f.queue = << >>
    THEN [fifo |-> [f EXCEPT !.pop_attempts = @ + 1], tile |-> 0]
    ELSE LET t == f.queue[Len(f.queue)]
             slot == f.tile_to_slot[t]
         IN  [fifo |-> [f EXCEPT !.pop_attempts = @ + 1,
                                 !.pop_success = @ + 1,
                                 !.queue = SubSeq(@, 1, Len(@) - 1),
                                 !.tile_to_slot = DictDel(@, t),
                                 !.bank_slots[slot[1]][slot[2]] = 0,
                                 !.valid_bits[slot[1]][slot[2]] = FALSE],
              tile |-> t]

\* pop() -> [fifo, tile]: tile is the gid of the popped head, 0 for None
BankedGroupFIFO_pop(f) ==
    LET f1 == [f EXCEPT !.pop_attempts = @ + 1]
    IN  IF f.queue = << >>
        THEN [fifo |-> f1, tile |-> 0]
        ELSE
            LET t == Head(f.queue)
                f2 == [f1 EXCEPT !.queue = Tail(@)]
                has == t \in DOMAIN f.tile_to_slot
                f3 == IF has THEN [f2 EXCEPT !.tile_to_slot = DictDel(@, t)] ELSE f2
                f4 == IF has
                      THEN LET bank == f.tile_to_slot[t][1]
                               slot == f.tile_to_slot[t][2]
                           IN  IF 0 <= bank /\ bank < f.banks /\ 0 <= slot
                                  /\ slot < f.group_slots_per_bank
                               THEN [f3 EXCEPT !.bank_slots[bank][slot] = 0,
                                               !.valid_bits[bank][slot] = FALSE]
                               ELSE f3
                      ELSE f3
            IN  [fifo |-> [f4 EXCEPT !.pop_success = @ + 1], tile |-> t]

(***************************************************************************)
(* DMAEngine.  inflight is a dict tag -> DMARequest; Python iterates it in *)
(* insertion order, which is increasing tag order.  h_bytes is a history   *)
(* field that the program does not have: the sum of the lengths of the     *)
(* requests that issue has recorded.  The float bw is held as the fraction *)
(* bw / bw_den; a Simulator is built with a whole number of bytes per      *)
(* cycle here, so __init__ leaves bw_den at 1.                             *)
(***************************************************************************)
DMAEngine_init(dram_latency, bw_bytes_per_cycle) ==
    [dram_latency |-> dram_latency,
     bw |-> bw_bytes_per_cycle,
     inflight |-> EmptyDict,
     completed |-> << >>,
     next_tag |-> 1,
     cycle |-> 0,
     h_bytes |-> 0,
     bw_den |-> 1]

SetMin(S) == CHOOSE x \in S : \A y \in S : x <= y

RECURSIVE Ascending(_)
Ascending(S) ==
    IF S = {} THEN << >>
    ELSE LET m == SetMin(S) IN <<m>> \o Ascending(S \ {m})

\* issue(base_addr, length, dest, request_type) -> tag: returns [dma, tag]
\* max(1.0, bw) is 1 for a bandwidth below one byte per cycle
DMAEngine_issue(d, base_addr, length, dest, request_type) ==
    LET tag == d.next_tag
        transfer_cycles == Max(1, IF d.bw < d.bw_den THEN length
                                  ELSE CeilDiv(length * d.bw_den, d.bw))
        done_cycle == d.cycle + d.dram_latency + transfer_cycles
        req == [tag |-> tag, base_addr |-> base_addr, length |-> length,
                issue_cycle |-> d.cycle, done_cycle |-> done_cycle,
                dest |-> dest, request_type |-> request_type]
    IN  [dma |-> [d EXCEPT !.next_tag = @ + 1,
                           !.inflight = DictSet(@, tag, req),
                           !.h_bytes = @ + length],
         tag |-> tag]

\* step that lets a request go one cycle after its done_cycle
DMAEngine_step_late(d) ==
    LET c == d.cycle + 1
        done == {tag \in DOMAIN d.inflight : d.inflight[tag].done_cycle < c}
        order == Ascending(done)
    IN  [d EXCEPT !.cycle = c,
                  !.inflight = [tag \in (DOMAIN d.inflight) \ done |-> d.inflight[tag]],
                  !.completed = @ \o [i \in 1..Len(order) |-> d.inflight[order[i]]]]

DMAEngine_step(d) ==
    LET c == d.cycle + 1
        done == {tag \in DOMAIN d.inflight : d.inflight[tag].done_cycle <= c}
        order == Ascending(done)
    IN  [d EXCEPT !.cycle = c,
                  !.inflight = [tag \in (DOMAIN d.inflight) \ done |-> d.inflight[tag]],
                  !.completed = @ \o [i \in 1..Len(order) |-> d.inflight[order[i]]]]

\* collect_completed() -> list: returns [dma, out]
DMAEngine_collect_completed(d) ==
    [dma |-> [d EXCEPT !.completed = << >>], out |-> d.completed]

DMAEngine_outstanding_count(d) == Cardinality(DOMAIN d.inflight)

(***************************************************************************)
(* SplitPrefetcher.  The PTEntry objects live in entries (an object's id   *)
(* is its index; objects are never freed); ptable, prefetch_queue and      *)
(* tag_to_entry hold ids, as the Python containers hold references.        *)
(* h_base and h_length are history fields that the program does not have:  *)
(* the unaligned range of the submission for which coalesce_enqueue created *)
(* the entry.  h_issue_cycle and h_done_cycle are history fields too: the   *)
(* issue_cycle and done_cycle of the DMA request issued for the entry.      *)
(***************************************************************************)
PTEntry(base, length, request_type) ==
    [valid |-> TRUE, base_addr |-> base, length |-> length, status |-> "pending",
     tag |-> 0, linked_tiles |-> << >>, dest_banks |-> << >>,
     request_type |-> request_type, h_base |-> 0, h_length |-> 0,
     h_issue_cycle |-> 0, h_done_cycle |-> 0]

SplitPrefetcher_init(max_outstanding, ptable_entries, coalesce_bytes) ==
    [max_outstanding |-> max_outstanding,
     ptable_entries |-> ptable_entries,
     coalesce_bytes |-> coalesce_bytes,
     dram_alignment |-> DRAM_ALIGNMENT,
     entries |-> << >>,
     ptable |-> << >>,
     prefetch_queue |-> << >>,
     tag_to_entry |-> EmptyDict,
     requests_total |-> 0,
     requests_coalesced |-> 0,
     requests_hits |-> 0]

\* _align that returns the range as given
SplitPrefetcher_align_unaligned(p, base, length) == <<base, length>>

\* _align(base, length) -> (base_aligned, length_aligned)
SplitPrefetcher_align(p, base, length) ==
    LET a == p.dram_alignment
        base_aligned == (base \div a) * a
        end == base + length
        end_aligned == ((end + a - 1) \div a) * a
    IN  <<base_aligned, end_aligned - base_aligned>>

\* "for e in self.ptable: if <test>: return e": the first of the indices I of
\* the elements of ptable that pass the test, 0 if there is none
FirstInTable(I) == IF I = {} THEN 0 ELSE SetMin(I)

\* lookup_done -> entry id, 0 for None
\* lookup_done that only finds a done entry of exactly the range asked for
SplitPrefetcher_lookup_done_exact(p, base, length, request_type) ==
    LET Covers(e) == /\ e.valid
                     /\ e.request_type = request_type
                     /\ e.status = "done"
                     /\ e.base_addr = base
                     /\ e.length = length
        i == FirstInTable({k \in 1..Len(p.ptable) : Covers(p.entries[p.ptable[k]])})
    IN  IF i = 0 THEN 0 ELSE p.ptable[i]

SplitPrefetcher_lookup_done(p, base, length, request_type) ==
    LET Covers(e) == /\ e.valid
                     /\ e.request_type = request_type
                     /\ e.status = "done"
                     /\ e.base_addr <= base
                     /\ (e.base_addr + e.length) >= (base + length)
        i == FirstInTable({k \in 1..Len(p.ptable) : Covers(p.entries[p.ptable[k]])})
    IN  IF i = 0 THEN 0 ELSE p.ptable[i]

\* pending_overlap that passes over the entries in flight
SplitPrefetcher_pending_overlap_not_inflight(p, base, length, request_type) ==
    LET Overlaps(e) == /\ e.valid
                       /\ e.request_type = request_type
                       /\ e.base_addr < base + length
                       /\ base < e.base_addr + e.length
                       /\ e.status = "pending"
        i == FirstInTable({k \in 1..Len(p.ptable) : Overlaps(p.entries[p.ptable[k]])})
    IN  IF i = 0 THEN 0 ELSE p.ptable[i]

\* pending_overlap -> entry id, 0 for None
SplitPrefetcher_pending_overlap(p, base, length, request_type) ==
    LET Overlaps(e) == /\ e.valid
                       /\ e.request_type = request_type
                       /\ e.base_addr < base + length
                       /\ base < e.base_addr + e.length
                       /\ e.status \in {"pending", "inflight"}
        i == FirstInTable({k \in 1..Len(p.ptable) : Overlaps(p.entries[p.ptable[k]])})
    IN  IF i = 0 THEN 0 ELSE p.ptable[i]

RemoveAt(s, i) == SubSeq(s, 1, i - 1) \o SubSeq(s, i + 1, Len(s))

\* allocate_ptable that, once the table is full, evicts the first entry
\* whatever its status
SplitPrefetcher_allocate_ptable_evict_first(p, base, length, request_type) ==
    LET new == Len(p.entries) + 1
        fresh == Append(p.entries, PTEntry(base, length, request_type))
    IN  IF Len(p.ptable) < p.ptable_entries
        THEN [pf |-> [p EXCEPT !.entries = fresh, !.ptable = Append(@, new)], e |-> new]
        ELSE [pf |-> [p EXCEPT !.entries = fresh,
                               !.ptable = Append(RemoveAt(@, 1), new)],
              e |-> new]

\* allocate_ptable that appends to a full table without evicting
SplitPrefetcher_allocate_ptable_no_evict(p, base, length, request_type) ==
    [pf |-> [p EXCEPT !.entries = Append(@, PTEntry(base, length, request_type)),
                      !.ptable = Append(@, Len(p.entries) + 1)],
     e |-> Len(p.entries) + 1]

\* allocate_ptable -> entry: returns [pf, e]
SplitPrefetcher_allocate_ptable(p, base, length, request_type) ==
    LET Invalid(e) == ~e.valid
        NotInflight(e) == e.status # "inflight"
        inv == FirstInTable({k \in 1..Len(p.ptable) : Invalid(p.entries[p.ptable[k]])})
        victim == FirstInTable({k \in 1..Len(p.ptable) : NotInflight(p.entries[p.ptable[k]])})
        new == Len(p.entries) + 1
        fresh == Append(p.entries, PTEntry(base, length, request_type))
    IN  IF inv # 0
        THEN [pf |-> [p EXCEPT !.entries[p.ptable[inv]] = PTEntry(base, length, request_type)],
              e |-> p.ptable[inv]]
        ELSE IF Len(p.ptable) < p.ptable_entries
        THEN [pf |-> [p EXCEPT !.entries = fresh, !.ptable = Append(@, new)], e |-> new]
        ELSE IF victim # 0
        THEN [pf |-> [p EXCEPT !.entries = fresh,
                               !.ptable = Append(RemoveAt(@, victim), new)],
              e |-> new]
        ELSE [pf |-> [p EXCEPT !.entries = fresh,
                               !.ptable = Append(RemoveAt(@, 1), new)],
              e |-> new]

\* the test for a merge into the tail without the limit on the merged span
SplitPrefetcher_can_coalesce_any_span(p, te, request_type, merged_len) ==
    te.request_type = request_type

\* the test for a merge with a merged span strictly below the limit
SplitPrefetcher_can_coalesce_below_limit(p, te, request_type, merged_len) ==
    te.request_type = request_type /\ merged_len < p.coalesce_bytes

\* coalesce_enqueue: the test for a merge into the tail te of the pending queue
SplitPrefetcher_can_coalesce(p, te, request_type, merged_len) ==
    te.request_type = request_type /\ merged_len <= p.coalesce_bytes

\* coalesce_enqueue(base, length, dest_banks, request_type) -> entry: returns [pf, e]
SplitPrefetcher_coalesce_enqueue(p, base, length, dest_banks, request_type) ==
    LET p1 == [p EXCEPT !.requests_total = @ + 1]
        al == SplitPrefetcher_align(p, base, length)
        base_a == al[1]
        len_a == al[2]
        done == SplitPrefetcher_lookup_done(p1, base_a, len_a, request_type)
        pend == SplitPrefetcher_pending_overlap(p1, base_a, len_a, request_type)
        hasq == p1.prefetch_queue # << >>
        tail == IF hasq THEN p1.prefetch_queue[Len(p1.prefetch_queue)] ELSE 0
        te == p1.entries[tail]
        merged_base == Min(te.base_addr, base_a)
        merged_end == Max(te.base_addr + te.length, base_a + len_a)
        merged_len == merged_end - merged_base
        al2 == SplitPrefetcher_allocate_ptable(p1, base_a, len_a, request_type)
    IN  IF done # 0
        THEN [pf |-> [p1 EXCEPT !.requests_hits = @ + 1], e |-> done]
        ELSE IF pend # 0
        THEN [pf |-> [p1 EXCEPT !.entries[pend].dest_banks = @ \o dest_banks], e |-> pend]
        ELSE IF hasq /\ SplitPrefetcher_can_coalesce(p1, te, request_type, merged_len)
        THEN [pf |-> [p1 EXCEPT !.entries[tail].base_addr = merged_base,
                                !.entries[tail].length = merged_len,
                                !.entries[tail].dest_banks = @ \o dest_banks,
                                !.requests_coalesced = @ + 1],
              e |-> tail]
        ELSE [pf |-> [al2.pf EXCEPT !.entries[al2.e].dest_banks = dest_banks,
                                    !.entries[al2.e].linked_tiles = << >>,
                                    !.entries[al2.e].status = "pending",
                                    !.entries[al2.e].h_base = base,
                                    !.entries[al2.e].h_length = length,
                                    !.prefetch_queue = Append(@, al2.e)],
              e |-> al2.e]

\* issue_prefetches() -> issued: returns [pf, dma, issued], issued a list of <<tag, entry>>
RECURSIVE SplitPrefetcher_issue_loop(_, _, _)
SplitPrefetcher_issue_loop(p, d, issued) ==
    IF p.prefetch_queue # << >> /\ DMAEngine_outstanding_count(d) < p.max_outstanding
    THEN LET e == Head(p.prefetch_queue)
             ent == p.entries[e]
             dest == IF ent.dest_banks # << >> THEN ent.dest_banks[1] ELSE <<0, 0>>
             r == DMAEngine_issue(d, ent.base_addr, ent.length,
                                  <<dest[1], dest[2], 0>>, ent.request_type)
             p1 == [p EXCEPT !.prefetch_queue = Tail(@),
                             !.entries[e].status = "inflight",
                             !.entries[e].tag = r.tag,
                             !.entries[e].h_issue_cycle = r.dma.inflight[r.tag].issue_cycle,
                             !.entries[e].h_done_cycle = r.dma.inflight[r.tag].done_cycle,
                             !.tag_to_entry = DictSet(@, r.tag, e)]
         IN  SplitPrefetcher_issue_loop(p1, r.dma, Append(issued, <<r.tag, e>>))
    ELSE [pf |-> p, dma |-> d, issued |-> issued]

\* issue_prefetches() whose loop does not test outstanding_count(): it issues
\* the whole pending queue
SplitPrefetcher_issue_prefetches_unlimited(p, d) ==
    LET Restore(r) == [r EXCEPT !.pf.max_outstanding = p.max_outstanding]
    IN  Restore(SplitPrefetcher_issue_loop(
                    [p EXCEPT !.max_outstanding =
                                  DMAEngine_outstanding_count(d) + Len(p.prefetch_queue) + 1],
                    d, << >>))

SplitPrefetcher_issue_prefetches(p, d) == SplitPrefetcher_issue_loop(p, d, << >>)

\* on_dma_completed(req)
SplitPrefetcher_on_dma_completed(p, req) ==
    IF req.tag \in DOMAIN p.tag_to_entry
    THEN LET e == p.tag_to_entry[req.tag]
         IN  [p EXCEPT !.tag_to_entry = DictDel(@, req.tag),
                       !.entries[e].status = "done"]
    ELSE p

(***************************************************************************)
(* TileGroup.  h_produced, h_ready, h_entry and h_dest are history fields  *)
(* that the program does not have: the Simulator cycle in which the        *)
(* producer delivered the tile, the cycle in which a DMA completion first  *)
(* set its reference_ready, the entry that coalesce_enqueue returned for   *)
(* it (0 while there is none) and the (bank, local_slot) destination that  *)
(* was passed to coalesce_enqueue for it (<< >> while there is none).      *)
(***************************************************************************)
\* a TileGroup constructed with reference_ready already set
TileGroup_reference_preset(gid, row_group_idx, col_tile_idx, col_start, col_end) ==
    [gid |-> gid, row_group_idx |-> row_group_idx, col_tile_idx |-> col_tile_idx,
     col_start |-> col_start, col_end |-> col_end,
     motion_ready |-> FALSE, reference_ready |-> TRUE, sftm_done |-> FALSE,
     sftm_cycles |-> 0, bypass_mode |-> FALSE,
     h_produced |-> 0, h_ready |-> 0, h_entry |-> 0, h_dest |-> << >>]

TileGroup(gid, row_group_idx, col_tile_idx, col_start, col_end) ==
    [gid |-> gid, row_group_idx |-> row_group_idx, col_tile_idx |-> col_tile_idx,
     col_start |-> col_start, col_end |-> col_end,
     motion_ready |-> FALSE, reference_ready |-> FALSE, sftm_done |-> FALSE,
     sftm_cycles |-> 0, bypass_mode |-> FALSE,
     h_produced |-> 0, h_ready |-> 0, h_entry |-> 0, h_dest |-> << >>]

linear_addr_for_pixel(x, y) == (y * FRAME_COLS + x) * BYTES_PER_PIXEL

region_bytes_for_dims(width_pixels, height_rows) ==
    width_pixels * height_rows * BYTES_PER_PIXEL

(***************************************************************************)
(* The per-layer SCU count vector.  A mask is the list of its nonzero      *)
(* coordinates <<o, i, mu0, mu1>>; a count vector is a function on 0..n-1. *)
(***************************************************************************)
\* np.bincount(x, minlength) for a list x of non-negative integers
np_bincount(x, minlength) ==
    LET n == IF x = << >> THEN minlength ELSE Max(minlength, SeqMax(x) + 1)
    IN  [k \in 0..(n - 1) |-> Cardinality({j \in 1..Len(x) : x[j] = k})]

\* the mapping with the SCU index computed as r * rows + c
SFTM_precompute_scu_counts_for_layer_row_stride(layer_spec, coords) ==
    IF coords = << >> THEN [k \in 0..(POF * PIF - 1) |-> 0]
    ELSE LET out_per_row == Max(1, CeilDiv(layer_spec.C_out, POF))
             in_per_col == Max(1, CeilDiv(layer_spec.C_in, PIF))
             r_idx(j) == Min(POF - 1, coords[j][1] \div out_per_row)
             c_idx(j) == Min(PIF - 1, coords[j][2] \div in_per_col)
             linear == [j \in 1..Len(coords) |-> r_idx(j) * POF + c_idx(j)]
         IN  np_bincount(linear, POF * PIF)

\* SFTM.precompute_scu_counts_for_layer(layer_spec, coords), rows = POF, cols = PIF
SFTM_precompute_scu_counts_for_layer(layer_spec, coords) ==
    IF coords = << >> THEN [k \in 0..(POF * PIF - 1) |-> 0]
    ELSE LET out_per_row == Max(1, CeilDiv(layer_spec.C_out, POF))
             in_per_col == Max(1, CeilDiv(layer_spec.C_in, PIF))
             r_idx(j) == Min(POF - 1, coords[j][1] \div out_per_row)
             c_idx(j) == Min(PIF - 1, coords[j][2] \div in_per_col)
             linear == [j \in 1..Len(coords) |-> r_idx(j) * PIF + c_idx(j)]
         IN  np_bincount(linear, POF * PIF)

\* ProducerSFTM.load_sparse_masks, the counts it caches for one layer: the
\* layer is taken to have CHANNELS input and output channels
ProducerSFTM_load_sparse_masks(coords) ==
    LET out_ch == CHANNELS
        in_ch == CHANNELS
        out_per_row == Max(1, CeilDiv(out_ch, POF))
        in_per_col == Max(1, CeilDiv(in_ch, PIF))
        r_idx(j) == Min(POF - 1, coords[j][1] \div out_per_row)
        c_idx(j) == Min(PIF - 1, coords[j][2] \div in_per_col)
        linear == [j \in 1..Len(coords) |-> r_idx(j) * PIF + c_idx(j)]
    IN  np_bincount(linear, POF * PIF)

(***************************************************************************)
(* ProducerSFTM.  active_tile is the gid of the tile being processed, 0    *)
(* for None.  scu_counts_cache is empty until load_sparse_masks fills it.   *)
(***************************************************************************)
ProducerSFTM_init(tile_columns, groups_total, base_period, core_id) ==
    LET num_col_tiles == CeilDiv(FRAME_COLS, tile_columns)
    IN  [core_id |-> core_id,
         tile_columns |-> tile_columns,
         num_col_tiles |-> num_col_tiles,
         base_period |-> base_period,
         period_per_tile |-> Max(1, RoundDiv(base_period, Max(1, num_col_tiles))),
         groups_total |-> groups_total,
         jitter |-> PRODUCER_JITTER,
         cycle |-> 0,
         issued |-> 0,
         next_issue |-> 1,
         gid |-> 1,
         active_tile |-> 0,
         sftm_busy_until |-> 0,
         scu_counts_cache |-> EmptyDict]

\* sum() of an array indexed 0..n-1
RECURSIVE np_sum(_, _)
np_sum(a, n) == IF n = 0 THEN 0 ELSE a[n - 1] + np_sum(a, n - 1)

\* compute_sftm_cycles(t, layer_name="RFConv0") -> (total_cycles, total_macs);
\* RHO_C = 0.375 = 3/8
ProducerSFTM_compute_sftm_cycles(p, t) ==
    LET rows == ROWS_PER_GROUP
        cols == t.col_end - t.col_start + 1
        out_patch_rows == Max(1, CeilDiv(rows, 2))
        out_patch_cols == Max(1, CeilDiv(cols, 2))
        patches == out_patch_rows * out_patch_cols
        cached == "RFConv0" \in DOMAIN p.scu_counts_cache
        assigned_mults == [k \in DOMAIN p.scu_counts_cache["RFConv0"] |->
                              p.scu_counts_cache["RFConv0"][k] * patches]
        cycles_per_scu == [k \in DOMAIN assigned_mults |->
                              (assigned_mults[k] + SCU_MULTIPLIERS - 1) \div SCU_MULTIPLIERS]
        mu2 == MU_C * MU_C
        total_macs == IF cached THEN np_sum(assigned_mults, POF * PIF)
                      ELSE (patches * CHANNELS * mu2 * 3) \div 8
        mults_per_scu == total_macs \div (POF * PIF)
        scu_cycles == IF cached
                      THEN (IF DOMAIN cycles_per_scu # {} THEN SeqMax(cycles_per_scu) ELSE 0)
                      ELSE CeilDiv(mults_per_scu, SCU_MULTIPLIERS)
        total_cycles == PRETU_LATENCY + scu_cycles + SCU_PIPELINE_LATENCY + POSTTU_LATENCY
    IN  <<total_cycles, total_macs>>

\* the values random.randint(-jitter, jitter) can return
JitterValues(jitter) == IF jitter > 0 THEN (0 - jitter)..jitter ELSE {0}

\* the finish of step() that leaves motion_ready as it is
ProducerSFTM_finish_motion_unset(tl, finished) ==
    [tl EXCEPT ![finished].sftm_done = TRUE]

\* step(), "Finish active tile": the flags set on the finished tile
ProducerSFTM_finish(tl, finished) ==
    [tl EXCEPT ![finished].sftm_done = TRUE,
               ![finished].motion_ready = TRUE]

\* step() -> (tile, sftm_cycles, macs) or None: returns [producer, tiles, result],
\* tiles the unit's TileGroup objects, result the gid of the finished tile or 0
ProducerSFTM_step(p, tl, jitter_v) ==
    LET c == p.cycle + 1
        p1 == [p EXCEPT !.cycle = c]
    IN  IF p.active_tile # 0 /\ c < p.sftm_busy_until
        THEN [producer |-> p1, tiles |-> tl, result |-> 0]
        ELSE IF p.active_tile # 0
        THEN [producer |-> [p1 EXCEPT !.active_tile = 0],
              tiles |-> ProducerSFTM_finish(tl, p.active_tile),
              result |-> p.active_tile]
        ELSE IF p.issued >= p.groups_total
        THEN [producer |-> p1, tiles |-> tl, result |-> 0]
        ELSE IF c >= p.next_issue
        THEN LET tile_index == p.issued
                 row_groups_per_frame == FRAME_ROWS \div ROWS_PER_GROUP
                 row_group_idx == (tile_index \div p.num_col_tiles) % row_groups_per_frame
                 col_tile_idx == tile_index % p.num_col_tiles
                 col_start == col_tile_idx * p.tile_columns
                 col_end == Min(FRAME_COLS - 1, col_start + p.tile_columns - 1)
                 t0 == TileGroup(p.gid, row_group_idx, col_tile_idx, col_start, col_end)
                 sc == ProducerSFTM_compute_sftm_cycles(p, t0)
                 t == [t0 EXCEPT !.sftm_cycles = sc[1]]
             IN  [producer |-> [p1 EXCEPT !.active_tile = p.gid,
                                          !.sftm_busy_until = c + sc[1],
                                          !.gid = @ + 1,
                                          !.issued = @ + 1,
                                          !.next_issue = c + Max(1, p.period_per_tile + jitter_v)],
                  tiles |-> Append(tl, t),
                  result |-> 0]
        ELSE [producer |-> p1, tiles |-> tl, result |-> 0]

(***************************************************************************)
(* ConsumerDPM.  active_tile is the gid of the tile last consumed, 0 for   *)
(* None.                                                                   *)
(***************************************************************************)
ConsumerDPM_init(tile_columns, base_period) ==
    LET num_col_tiles == CeilDiv(FRAME_COLS, tile_columns)
    IN  [tile_columns |-> tile_columns,
         num_col_tiles |-> num_col_tiles,
         base_period |-> base_period,
         period_per_tile |-> Max(1, RoundDiv(base_period, Max(1, num_col_tiles))),
         jitter |-> CONSUMER_JITTER,
         cycle |-> 0,
         next_consume |-> 1,
         stall_cycles |-> 0,
         consumed |-> 0,
         active_tile |-> 0,
         dpm_busy_until |-> 0]

\* compute_dpm_cycles(t) -> (total_cycles, macs)
ConsumerDPM_compute_dpm_cycles(t) ==
    LET rows == ROWS_PER_GROUP
        cols == t.col_end - t.col_start + 1
        out_pixels == rows * cols
        interp_cycles == out_pixels * DFCONV_INTERP_COST_PER_SAMPLE
        macs == (out_pixels * CHANNELS * 9 * CHANNELS) \div 4
        mac_cycles == CeilDiv(macs, DFCONV_PE_COUNT)
    IN  <<interp_cycles + mac_cycles, macs>>

ConsumerDPM_step(c) == [c EXCEPT !.cycle = @ + 1]

\* ready_to_consume() without the test of dpm_busy_until
ConsumerDPM_ready_to_consume_while_busy(c) == c.cycle >= c.next_consume

ConsumerDPM_ready_to_consume(c) ==
    c.cycle >= c.next_consume /\ c.cycle >= c.dpm_busy_until

\* start_consume(t) -> (dpm_cycles, macs): returns [consumer, dpm_cycles, macs]
ConsumerDPM_start_consume(c, t, jitter_v) ==
    LET dc == ConsumerDPM_compute_dpm_cycles(t)
    IN  [consumer |-> [c EXCEPT !.active_tile = t.gid,
                                !.dpm_busy_until = c.cycle + dc[1],
                                !.next_consume = c.cycle + Max(1, c.period_per_tile + jitter_v),
                                !.consumed = @ + 1],
         dpm_cycles |-> dc[1],
         macs |-> dc[2]]

(***************************************************************************)
(* Simulator.  Its fields are the variables; S is the record of them that  *)
(* the phases of Simulator.step pass along.  The instrumentation lists     *)
(* (occ_timeseries, fifo_occ_ts, first_byte_samples), which only grow and  *)
(* are read by nothing in step, are left out.                              *)
(***************************************************************************)
Units(c) == 0..(c.num_parallel_units - 1)

StatsInit ==
    [cycles |-> 0, groups_produced |-> 0, groups_consumed |-> 0,
     fifo_max_occupancy |-> 0, dma_bytes |-> 0, dma_requests |-> 0,
     dma_motion_requests |-> 0, dma_reference_requests |-> 0,
     dpm_stall_cycles |-> 0, dpm_stall_motion |-> 0, dpm_stall_reference |-> 0,
     prefetch_hits |-> 0, prefetch_coalesced |-> 0, prefetch_total |-> 0,
     sftm_compute_cycles |-> 0, dpm_compute_cycles |-> 0,
     sftm_macs |-> 0, dpm_macs |-> 0, bypass_mode_used |-> 0]

\* Simulator.__init__ with the arguments c
\* the scu_counts_cache of every producer after __init__: mask_dir is the
\* dict of the mask files in the directory, empty for None, from layer name
\* to the coordinates in the file
Simulator_load_masks(mask_dir) ==
    [n \in DOMAIN mask_dir \cap {"RFConv0", "RFConv1", "RFDeConv0", "RFConv2",
                                  "RFConv3", "RFDeConv1"} |->
        ProducerSFTM_load_sparse_masks(mask_dir[n])]

Simulator_init(c) ==
    LET groups_per_unit == CeilDiv(c.groups_total, c.num_parallel_units)
    IN  [fifos |-> [u \in Units(c) |-> BankedGroupFIFO_init(c.banks, c.group_slots)],
         producers |-> [u \in Units(c) |->
                          [ProducerSFTM_init(c.tile_columns, groups_per_unit,
                                             c.base_period, u)
                              EXCEPT !.scu_counts_cache =
                                         Simulator_load_masks(c.mask_dir)]],
         consumers |-> [u \in Units(c) |-> ConsumerDPM_init(c.tile_columns, c.base_period)],
         tiles |-> [u \in Units(c) |-> << >>],
         tile_registry |-> EmptyDict,
         unit_cycles |-> [u \in Units(c) |-> 0],
         pf |-> SplitPrefetcher_init(c.max_outstanding, c.ptable_entries, c.coalesce_bytes),
         dma |-> DMAEngine_init(c.dram_latency, c.dram_bw),
         stats |-> StatsInit]

\* compute_reference_region_for_tile(t) -> (base, length)
Simulator_compute_reference_region_for_tile(t) ==
    LET x0 == t.col_start
        x1 == t.col_end
        y0 == Max(0, t.row_group_idx * ROWS_PER_GROUP - cfg.halo_pixels)
        y1 == Min(FRAME_ROWS - 1, (t.row_group_idx + 1) * ROWS_PER_GROUP - 1 + cfg.halo_pixels)
        width == x1 - x0 + 1
        height == y1 - y0 + 1
    IN  <<linear_addr_for_pixel(x0, y0), region_bytes_for_dims(width, height)>>

\* allocate_dest_banks_for_tile(t, fifo) -> [(bank, local_slot)]
Simulator_allocate_dest_banks_for_tile(fifo) ==
    LET slot_idx == BankedGroupFIFO_occupancy(fifo)
        bank == slot_idx % fifo.banks
        local_slot == slot_idx \div fifo.banks
    IN  << <<bank, IF local_slot >= fifo.group_slots_per_bank
                   THEN fifo.group_slots_per_bank - 1 ELSE local_slot>> >>

\* the bypass branch without the increment of bypass_mode_used
Simulator_bypass_uncounted(S, u, g) ==
    [S EXCEPT !.tiles[u][g].bypass_mode = TRUE]

\* the bypass branch that does not mark the tile
Simulator_bypass_unmarked(S, u, g) ==
    [S EXCEPT !.stats.bypass_mode_used = @ + 1]

\* step, the bypass branch: the tile takes the DRAM path
Simulator_bypass(S, u, g) ==
    [S EXCEPT !.tiles[u][g].bypass_mode = TRUE,
              !.stats.bypass_mode_used = @ + 1]

\* step, after a successful push: enqueue the reference prefetch and link the tile
Simulator_enqueue_reference(S, u, g) ==
    LET t == S.tiles[u][g]
        reg == Simulator_compute_reference_region_for_tile(t)
        dest_banks == Simulator_allocate_dest_banks_for_tile(S.fifos[u])
        Link(r) ==
            [S EXCEPT !.pf = IF g \in SeqToSet(r.pf.entries[r.e].linked_tiles) THEN r.pf
                             ELSE [r.pf EXCEPT !.entries[r.e].linked_tiles = Append(@, g)],
                      !.tiles[u][g].h_entry = r.e,
                      !.tiles[u][g].h_dest = dest_banks[1]]
    IN  Link(SplitPrefetcher_coalesce_enqueue(S.pf, reg[1], reg[2], dest_banks, "reference"))

\* step, 1: the producer of unit u has returned tile g in Simulator cycle cyc
Simulator_deliver(S, u, g, cyc) ==
    LET t == S.tiles[u][g]
        S1 == [S EXCEPT !.stats.groups_produced = @ + 1,
                        !.stats.sftm_compute_cycles = @ + t.sftm_cycles,
                        !.stats.sftm_macs = @ + 0,
                        !.tile_registry = DictSet(@, g, u),
                        !.tiles[u][g].h_produced = cyc]
    IN  IF cfg.bypass_mode \/ ~BankedGroupFIFO_can_push(S1.fifos[u])
        THEN Simulator_bypass(S1, u, g)
        ELSE LET Pushed(r) ==
                     IF r.ok
                     THEN Simulator_enqueue_reference([S1 EXCEPT !.fifos[u] = r.fifo], u, g)
                     ELSE [S1 EXCEPT !.fifos[u] = r.fifo]
             IN  Pushed(BankedGroupFIFO_push(S1.fifos[u], g))

\* step, 4: the consumer of unit u
Simulator_consume(S, u, jitter_v) ==
    LET c1 == ConsumerDPM_step(S.consumers[u])
        S1 == [S EXCEPT !.consumers[u] = c1]
        front == BankedGroupFIFO_peek(S.fifos[u])
    IN  IF ~ConsumerDPM_ready_to_consume(c1) THEN S1
        ELSE IF front = 0 THEN S1
        ELSE IF S.tiles[u][front].motion_ready /\ S.tiles[u][front].reference_ready
        THEN LET Started(r, sc) ==
                     [S1 EXCEPT !.fifos[u] = r.fifo,
                                !.consumers[u] = sc.consumer,
                                !.stats.groups_consumed = @ + 1,
                                !.stats.dpm_compute_cycles = @ + sc.dpm_cycles,
                                !.stats.dpm_macs = @ + sc.macs]
                 Popped(r) ==
                     Started(r, ConsumerDPM_start_consume(c1, S.tiles[u][r.tile], jitter_v))
             IN  Popped(BankedGroupFIFO_pop(S.fifos[u]))
        ELSE [S1 EXCEPT !.stats.dpm_stall_cycles = @ + 1,
                        !.stats.dpm_stall_motion =
                            IF ~S.tiles[u][front].motion_ready THEN @ + 1 ELSE @,
                        !.stats.dpm_stall_reference =
                            IF ~S.tiles[u][front].reference_ready THEN @ + 1 ELSE @]

\* step, 5: the per-unit statistics
Simulator_unit_stats(S, u, cyc) ==
    LET occ == BankedGroupFIFO_occupancy(S.fifos[u])
    IN  [S EXCEPT !.stats.fifo_max_occupancy = IF occ > @ THEN occ ELSE @,
                  !.unit_cycles[u] = cyc]

\* step, the body of the loop over the units, for unit u
Simulator_unit(S, u, cyc, jp, jc) ==
    LET Delivered(S1, result) ==
            IF result # 0 THEN Simulator_deliver(S1, u, result, cyc) ELSE S1
        Produced(pr) ==
            Delivered([S EXCEPT !.producers[u] = pr.producer, !.tiles[u] = pr.tiles],
                      pr.result)
    IN  Simulator_unit_stats(
            Simulator_consume(
                Produced(ProducerSFTM_step(S.producers[u], S.tiles[u], jp)), u, jc),
            u, cyc)

\* step, the loop over the units u, u + 1, ..., n - 1
RECURSIVE Simulator_units(_, _, _, _, _, _)
Simulator_units(S, u, n, cyc, jp, jc) ==
    IF u >= n THEN S
    ELSE Simulator_units(Simulator_unit(S, u, cyc, jp[u], jc[u]), u + 1, n, cyc, jp, jc)

\* step, 2 with dma_bytes counting the bytes the tiles asked for
Simulator_prefetch_submitted_bytes(S) ==
    LET Issued(r) ==
            LET n == Len(r.issued)
                Length(i) == r.pf.entries[r.issued[i][2]].h_length
                IsRef(i) == r.pf.entries[r.issued[i][2]].request_type = "reference"
                RECURSIVE Bytes(_)
                Bytes(i) == IF i = 0 THEN 0 ELSE Length(i) + Bytes(i - 1)
                refs == Cardinality({i \in 1..n : IsRef(i)})
            IN  [S EXCEPT !.pf = r.pf,
                          !.dma = r.dma,
                          !.stats.dma_requests = @ + n,
                          !.stats.dma_bytes = @ + Bytes(n),
                          !.stats.dma_reference_requests = @ + refs,
                          !.stats.dma_motion_requests = @ + (n - refs)]
    IN  Issued(SplitPrefetcher_issue_prefetches(S.pf, S.dma))

\* step, 2: the prefetcher issues
Simulator_prefetch(S) ==
    LET Issued(r) ==
            LET n == Len(r.issued)
                Length(i) == r.pf.entries[r.issued[i][2]].length
                IsRef(i) == r.pf.entries[r.issued[i][2]].request_type = "reference"
                RECURSIVE Bytes(_)
                Bytes(i) == IF i = 0 THEN 0 ELSE Length(i) + Bytes(i - 1)
                refs == Cardinality({i \in 1..n : IsRef(i)})
            IN  [S EXCEPT !.pf = r.pf,
                          !.dma = r.dma,
                          !.stats.dma_requests = @ + n,
                          !.stats.dma_bytes = @ + Bytes(n),
                          !.stats.dma_reference_requests = @ + refs,
                          !.stats.dma_motion_requests = @ + (n - refs)]
    IN  Issued(SplitPrefetcher_issue_prefetches(S.pf, S.dma))

\* step, 3: one completed request is dispatched in Simulator cycle cyc
Simulator_complete(S, req, cyc) ==
    LET HasTag(e) == e.tag = req.tag
        Entry(p1, i) ==
            IF req.tag \in DOMAIN p1.tag_to_entry THEN p1.tag_to_entry[req.tag]
            ELSE IF i = 0 THEN 0 ELSE p1.ptable[i]
        Gids(p1, entry) ==
            IF entry # 0 /\ p1.entries[entry].request_type = "reference"
            THEN SeqToSet(p1.entries[entry].linked_tiles) \cap DOMAIN S.tile_registry
            ELSE {}
        Flag(u, t, gids) ==
            IF t.gid \in gids /\ S.tile_registry[t.gid] = u
            THEN [t EXCEPT !.reference_ready = TRUE,
                           !.h_ready = IF t.reference_ready THEN @ ELSE cyc]
            ELSE t
        Flagged(p1, gids) ==
            [S EXCEPT !.pf = p1,
                      !.tiles = [u \in DOMAIN S.tiles |->
                                   [g \in 1..Len(S.tiles[u]) |-> Flag(u, S.tiles[u][g], gids)]]]
        Found(p1) == FirstInTable({k \in 1..Len(p1.ptable) :
                                      HasTag(p1.entries[p1.ptable[k]])})
        Completed(p1) == Flagged(p1, Gids(p1, Entry(p1, Found(p1))))
    IN  Completed(SplitPrefetcher_on_dma_completed(S.pf, req))

RECURSIVE Simulator_completions(_, _, _, _)
Simulator_completions(S, completed, i, cyc) ==
    IF i > Len(completed) THEN S
    ELSE Simulator_completions(Simulator_complete(S, completed[i], cyc), completed, i + 1, cyc)

\* step, 3: DMA step and the dispatch of the completions
Simulator_dma(S, cyc) ==
    LET Collected(r) == Simulator_completions([S EXCEPT !.dma = r.dma], r.out, 1, cyc)
    IN  Collected(DMAEngine_collect_completed(DMAEngine_step(S.dma)))

\* step, the closing statistics
Simulator_finish(S, cyc) ==
    [S EXCEPT !.stats.prefetch_total = S.pf.requests_total,
              !.stats.prefetch_hits = S.pf.requests_hits,
              !.stats.prefetch_coalesced = S.pf.requests_coalesced,
              !.stats.cycles = IF DOMAIN S.unit_cycles # {} THEN SeqMax(S.unit_cycles) ELSE cyc]

\* Simulator.step() -> done, entered with cycle = cyc - 1: returns [S, done]
Simulator_step(S, cyc, jp, jc) ==
    LET Done(S4) == [S |-> S4, done |-> S4.stats.groups_consumed >= cfg.groups_total]
    IN  Done(Simulator_finish(
                Simulator_dma(
                    Simulator_prefetch(
                        Simulator_units(S, 0, cfg.num_parallel_units, cyc, jp, jc)),
                    cyc),
                cyc))

\* run: sum(fifo.overflow_count for fifo in self.fifos), over the units below n
RECURSIVE Simulator_overflow_sum(_, _)
Simulator_overflow_sum(S, n) ==
    IF n = 0 THEN 0 ELSE S.fifos[n - 1].overflow_count + Simulator_overflow_sum(S, n - 1)

\* run: the dict res that run returns (without the wall-clock time and the
\* instrumentation lists)
Simulator_run_result(S) ==
    [stats |-> S.stats,
     dma_outstanding_at_end |-> DMAEngine_outstanding_count(S.dma),
     fifo_overflow_count |-> Simulator_overflow_sum(S, cfg.num_parallel_units),
     dram_bw |-> S.dma.bw,
     tile_columns |-> cfg.tile_columns,
     num_col_tiles |-> CeilDiv(FRAME_COLS, cfg.tile_columns),
     row_groups |-> FRAME_ROWS \div ROWS_PER_GROUP,
     num_parallel_units |-> cfg.num_parallel_units,
     unit_cycles |-> S.unit_cycles]

\* simulate_frame_proposed: the dict built from the result res of run
simulate_frame_proposed_standardized(res) ==
    [cycles |-> res.stats.cycles,
     module_cycles |->
         [SFTM |-> res.stats.sftm_compute_cycles,
          DPM |-> res.stats.dpm_compute_cycles,
          SFTM_mem |-> IF res.dram_bw > 0
                       THEN CeilDiv(res.stats.dma_bytes, Max(1, res.dram_bw)) ELSE 0],
     bytes_written_offchip |-> res.stats.dma_bytes,
     bytes_read_offchip |-> res.stats.dma_bytes,
     fifo_stats |-> [max_occ |-> res.stats.fifo_max_occupancy,
                     overflow_count |-> res.fifo_overflow_count]]

(***************************************************************************)
(* Spec: Simulator.run(max_cycles) on a Simulator built with the arguments *)
(* cfg.  random.randint is a free choice among the values it can return.   *)
(***************************************************************************)
UnitCounts == {1, 2}
FifoShapes == {<<1, 1>>, <<2, 1>>, <<2, 2>>}
\* <<dram_latency, dram_bw>>
DramSettings == {<<0, 4096>>, <<0, 1024>>, <<10, 1024>>}

SimConfig(units, groups, shape, dram, bypass, max_cycles) ==
    [tile_columns |-> 1,
     banks |-> shape[1],
     group_slots |-> shape[2],
     dram_latency |-> dram[1],
     dram_bw |-> dram[2],
     max_outstanding |-> DEFAULT_MAX_OUTSTANDING,
     groups_total |-> groups,
     halo_pixels |-> DEFAULT_HALO_PIXELS,
     ptable_entries |-> DEFAULT_PTABLE_ENTRIES,
     coalesce_bytes |-> DEFAULT_COALESCE_BYTES,
     base_period |-> DEFAULT_BASE_PERIOD,
     num_parallel_units |-> units,
     bypass_mode |-> bypass,
     max_cycles |-> max_cycles,
     mask_dir |-> EmptyDict]

\* Tiles one column wide all have their reference region in the first DRAM
\* block, so those runs issue one DMA request.  Tiles 57 columns wide without
\* halo have regions of 16416 bytes that start 4104 bytes apart: here every
\* tile has a request of its own (issued in cycles 26 and 52).
WideTileConfig ==
    [SimConfig(1, 2, <<2, 1>>, <<0, 4096>>, FALSE, WideRunCycles)
        EXCEPT !.tile_columns = 57, !.halo_pixels = 0]

\* One tile with the default DRAM latency and bandwidth: its request is issued
\* in cycle 12 and the tile is popped in cycle 816.
DefaultDramConfig ==
    SimConfig(1, 1, <<2, 1>>, <<DEFAULT_DRAM_LATENCY, DEFAULT_DRAM_BW_BYTES_PER_CYCLE>>,
              FALSE, LatencyRunCycles)

\* Two tiles and a max_cycles that stops the run in the cycle in which the
\* first tile is popped (cycle 13), before the second tile is delivered.
CappedRunConfig ==
    SimConfig(1, 2, <<2, 1>>, <<0, 4096>>, FALSE, CappedRunCycles)

\* One tile 57 columns wide and a mask directory with the file RFConv0.npz:
\* two nonzeros fall into SCU 0 and one into SCU 47.
MaskedConfig ==
    [SimConfig(1, 1, <<2, 1>>, <<0, 4096>>, FALSE, WideRunCycles)
        EXCEPT !.tile_columns = 57, !.halo_pixels = 0,
               !.mask_dir = [n \in {"RFConv0"} |->
                                <<<<0, 0, 0, 0>>, <<0, 1, 1, 1>>, <<35, 35, 0, 0>>>>]]

\* Three tiles one column wide whose reference regions lie in one DRAM block,
\* with a DRAM latency of 30: the tiles delivered second and third find the
\* request of the first in flight, all three are ready when it completes, and
\* the consumer pops the second tile (191 cycles after the first) while the
\* third is resident.
OrderedPopConfig ==
    SimConfig(1, 3, <<2, 2>>, <<30, 1024>>, FALSE, OrderRunCycles)

\* Three tiles 10 columns wide without halo (regions of 2880 bytes that start
\* 720 bytes apart): the second tile finds the block of the first done, the
\* third reaches into the next block and gets a request of its own.  The
\* consumer is busy with the first tile for 1903 cycles.
StuckHeadConfig ==
    [SimConfig(1, 3, <<2, 1>>, <<0, 4096>>, FALSE, StuckHeadRunCycles)
        EXCEPT !.tile_columns = 10, !.halo_pixels = 0]

\* The same three tiles with a DRAM latency of 35: the request of the first
\* tile, for the block [0, 4096), is in flight when the third tile, whose
\* region [1440, 4320) reaches into the next block, is submitted.
PartialCoverConfig ==
    [SimConfig(1, 3, <<2, 2>>, <<35, 1024>>, FALSE, WideRunCycles)
        EXCEPT !.tile_columns = 10, !.halo_pixels = 0]

\* Two units are run with one FIFO shape only: their state space is by far the
\* largest.  One run is long enough for a consumer to finish a tile (191 cycles
\* for a tile one column wide) and pop the next.
SimConfigs ==
    {SimConfig(1, groups, shape, dram, FALSE, MaxCycles) :
        groups \in 1..MaxGroupsTotal, shape \in FifoShapes, dram \in DramSettings}
    \cup
    {SimConfig(2, groups, <<2, 1>>, dram, FALSE, MaxCycles) :
        groups \in 1..MaxGroupsTotal, dram \in DramSettings}
    \cup
    {SimConfig(units, groups, <<1, 1>>, <<0, 1024>>, TRUE, MaxCycles) :
        units \in UnitCounts, groups \in 1..MaxGroupsTotal}
    \cup
    {SimConfig(1, 2, <<2, 1>>, <<10, 1024>>, FALSE, LongRunCycles)}
    \cup
    {WideTileConfig, DefaultDramConfig, CappedRunConfig, MaskedConfig,
     OrderedPopConfig, StuckHeadConfig, PartialCoverConfig}

SimState ==
    [fifos |-> fifos, producers |-> producers, consumers |-> consumers,
     tiles |-> tiles, tile_registry |-> tile_registry, unit_cycles |-> unit_cycles,
     pf |-> pf, dma |-> dma, stats |-> stats]

Init ==
    /\ cfg \in SimConfigs
    /\ pc = "run"
    /\ cycle = 0
    /\ fifos = Simulator_init(cfg).fifos
    /\ producers = Simulator_init(cfg).producers
    /\ consumers = Simulator_init(cfg).consumers
    /\ tiles = Simulator_init(cfg).tiles
    /\ tile_registry = Simulator_init(cfg).tile_registry
    /\ unit_cycles = Simulator_init(cfg).unit_cycles
    /\ pf = Simulator_init(cfg).pf
    /\ dma = Simulator_init(cfg).dma
    /\ stats = Simulator_init(cfg).stats
    /\ drv = << >>

\* the producer draws its jitter in this step exactly if it issues a tile
ProducerDraws(p) ==
    p.active_tile = 0 /\ p.issued < p.groups_total /\ p.cycle + 1 >= p.next_issue

\* the consumer can draw its jitter in this step only if it is ready to consume
\* and its FIFO holds a tile or its producer is about to deliver one
ConsumerMayDraw(u) ==
    /\ ConsumerDPM_ready_to_consume(ConsumerDPM_step(consumers[u]))
    /\ fifos[u].queue # << >> \/ producers[u].active_tile # 0

\* the lists <<v_1, ..., v_n>> with v_i in sets[i]
RECURSIVE Draws(_)
Draws(sets) ==
    IF sets = << >> THEN {<< >>}
    ELSE {Append(f, v) : f \in Draws(SubSeq(sets, 1, Len(sets) - 1)), v \in sets[Len(sets)]}

\* run without "if finished: break"
Simulator_run_continue_no_break(finished) == "run"

\* run: "if finished: break": the position of run after a step that returned finished
Simulator_run_continue(finished) == IF finished THEN "done" ELSE "run"

\* run: one iteration of "while self.cycle < max_cycles: finished = self.step()".
\* A jitter value other than 0 is tried only for a draw that the step makes:
\* without the draw the step does not read the value.
RunStep ==
    /\ pc = "run"
    /\ cycle < cfg.max_cycles
    /\ LET JP(u) == IF ProducerDraws(producers[u])
                    THEN JitterValues(PRODUCER_JITTER) ELSE {0}
           JC(u) == IF ConsumerMayDraw(u)
                    THEN JitterValues(CONSUMER_JITTER) ELSE {0}
       IN  \E jp \in Draws([i \in 1..cfg.num_parallel_units |-> JP(i - 1)]),
              jc \in Draws([i \in 1..cfg.num_parallel_units |-> JC(i - 1)]) :
              \E r \in {Simulator_step(SimState, cycle + 1,
                                       [u \in Units(cfg) |-> jp[u + 1]],
                                       [u \in Units(cfg) |-> jc[u + 1]])} :
                 /\ \A u \in Units(cfg) :
                       r.S.consumers[u].consumed = consumers[u].consumed => jc[u + 1] = 0
                 /\ cycle' = cycle + 1
                 /\ fifos' = r.S.fifos
                 /\ producers' = r.S.producers
                 /\ consumers' = r.S.consumers
                 /\ tiles' = r.S.tiles
                 /\ tile_registry' = r.S.tile_registry
                 /\ unit_cycles' = r.S.unit_cycles
                 /\ pf' = r.S.pf
                 /\ dma' = r.S.dma
                 /\ stats' = r.S.stats
                 /\ pc' = Simulator_run_continue(r.done)
    /\ UNCHANGED <<cfg, drv>>

\* run: the loop condition fails and run returns
RunExit ==
    /\ pc = "run"
    /\ cycle >= cfg.max_cycles
    /\ pc' = "done"
    /\ UNCHANGED <<cfg, cycle, fifos, producers, consumers, tiles, tile_registry,
                   unit_cycles, pf, dma, stats, drv>>

Next == RunStep \/ RunExit

Spec == Init /\ [][Next]_vars

(***************************************************************************)
(* SpecFifo: one BankedGroupFIFO (fifos[0]) whose caller pushes tiles with *)
(* fresh gids and pops in any order.                                       *)
(***************************************************************************)
InitFifo ==
    /\ cfg \in {[banks |-> b, group_slots |-> s] : b \in 1..MaxBanks, s \in 1..MaxSlots}
    /\ fifos = [u \in {0} |-> BankedGroupFIFO_init(cfg.banks, cfg.group_slots)]
    /\ drv = [next_gid |-> 1]
    /\ pc = "fifo"
    /\ cycle = 0
    /\ producers = << >>
    /\ consumers = << >>
    /\ tiles = << >>
    /\ tile_registry = << >>
    /\ unit_cycles = << >>
    /\ pf = << >>
    /\ dma = << >>
    /\ stats = << >>

FifoPush ==
    /\ drv.next_gid <= MaxFifoPushes
    /\ fifos' = [fifos EXCEPT ![0] = BankedGroupFIFO_push(@, drv.next_gid).fifo]
    /\ drv' = [drv EXCEPT !.next_gid = @ + 1]
    /\ UNCHANGED <<cfg, pc, cycle, producers, consumers, tiles, tile_registry,
                   unit_cycles, pf, dma, stats>>

FifoPop ==
    /\ fifos[0].pop_attempts < MaxFifoPops
    /\ fifos' = [fifos EXCEPT ![0] = BankedGroupFIFO_pop(@).fifo]
    /\ UNCHANGED <<cfg, pc, cycle, producers, consumers, tiles, tile_registry,
                   unit_cycles, pf, dma, stats, drv>>

NextFifo == FifoPush \/ FifoPop

SpecFifo == InitFifo /\ [][NextFifo]_vars

(***************************************************************************)
(* SpecPrefetch: a SplitPrefetcher and its DMAEngine whose caller submits  *)
(* requests, runs the issue step and steps the DMA engine in any order.    *)
(* The caller links the tile of a submission to the entry it gets back and *)
(* hands every completion to on_dma_completed, as Simulator.step does.     *)
(* drv is the caller's record of its last submission: the base, the length, *)
(* the request type, the tail of the pending queue before the call, the    *)
(* (bank, local_slot) destination passed and the entry the call returned.  *)
(* The first submission to a fresh prefetcher creates entry 1.             *)
(***************************************************************************)
SubmitBases == {0, 4000, 4100, 16384}
SubmitLengths == {200}
RequestTypes == {"reference", "motion"}
OutstandingLimits == {1, 2}
TableSizes == {1, 2}

InitPrefetch ==
    /\ cfg \in {[max_outstanding |-> m, ptable_entries |-> n,
                 coalesce_bytes |-> 2 * DRAM_ALIGNMENT,
                 dram_latency |-> 1, dram_bw |-> DRAM_ALIGNMENT] :
                    m \in OutstandingLimits, n \in TableSizes}
    /\ pf = SplitPrefetcher_init(cfg.max_outstanding, cfg.ptable_entries, cfg.coalesce_bytes)
    /\ dma = DMAEngine_init(cfg.dram_latency, cfg.dram_bw)
    /\ drv = [submits |-> 0, last_type |-> "none", last_base |-> 0, last_length |-> 0,
              last_tail |-> 0, last_dest |-> <<0, 0>>, last_entry |-> 0]
    /\ pc = "prefetch"
    /\ cycle = 0
    /\ fifos = << >>
    /\ producers = << >>
    /\ consumers = << >>
    /\ tiles = << >>
    /\ tile_registry = << >>
    /\ unit_cycles = << >>
    /\ stats = << >>

\* the entry at the tail of the pending queue, 0 for an empty queue
QueueTail(p) ==
    IF p.prefetch_queue = << >> THEN 0 ELSE p.prefetch_queue[Len(p.prefetch_queue)]

PfSubmit ==
    /\ drv.submits < MaxSubmits
    /\ \E base \in SubmitBases, length \in SubmitLengths, request_type \in RequestTypes :
          LET gid == drv.submits + 1
              dest == <<gid % 2, gid \div 2>>
              r == SplitPrefetcher_coalesce_enqueue(pf, base, length, <<dest>>,
                                                    request_type)
          IN  /\ pf' = IF gid \in SeqToSet(r.pf.entries[r.e].linked_tiles) THEN r.pf
                       ELSE [r.pf EXCEPT !.entries[r.e].linked_tiles = Append(@, gid)]
              /\ drv' = [drv EXCEPT !.submits = @ + 1,
                                    !.last_type = request_type,
                                    !.last_base = base,
                                    !.last_length = length,
                                    !.last_tail = QueueTail(pf),
                                    !.last_dest = dest,
                                    !.last_entry = r.e]
    /\ UNCHANGED <<cfg, pc, cycle, fifos, producers, consumers, tiles, tile_registry,
                   unit_cycles, dma, stats>>

PfIssue ==
    /\ pf' = SplitPrefetcher_issue_prefetches(pf, dma).pf
    /\ dma' = SplitPrefetcher_issue_prefetches(pf, dma).dma
    /\ UNCHANGED <<cfg, pc, cycle, fifos, producers, consumers, tiles, tile_registry,
                   unit_cycles, stats, drv>>

RECURSIVE CompleteAll(_, _, _)
CompleteAll(p, completed, i) ==
    IF i > Len(completed) THEN p
    ELSE CompleteAll(SplitPrefetcher_on_dma_completed(p, completed[i]), completed, i + 1)

PfDmaStep ==
    /\ dma.cycle < MaxDmaCycle
    /\ LET r == DMAEngine_collect_completed(DMAEngine_step(dma))
       IN  /\ dma' = r.dma
           /\ pf' = CompleteAll(pf, r.out, 1)
    /\ UNCHANGED <<cfg, pc, cycle, fifos, producers, consumers, tiles, tile_registry,
                   unit_cycles, stats, drv>>

NextPrefetch == PfSubmit \/ PfIssue \/ PfDmaStep

SpecPrefetch == InitPrefetch /\ [][NextPrefetch]_vars

(***************************************************************************)
(* SpecMask: the nonzeros of one layer's mask are listed one by one, then  *)
(* the mask is loaded: by load_masks of vcnpu.py for a layer with cfg.C_out *)
(* and cfg.C_in channels, and by load_sparse_masks of vcnpuprop.py when the *)
(* layer has the CHANNELS channels that function takes for granted.        *)
(***************************************************************************)
ChannelCounts == {5, CHANNELS}

\* channel indices below C at the edges of the first blocks and of the range
CoordSamples(C, parts) ==
    {x \in {0, CeilDiv(C, parts), C - 1} : 0 <= x /\ x < C}

InitMask ==
    /\ cfg \in {[C_out |-> co, C_in |-> ci] : co \in ChannelCounts, ci \in ChannelCounts}
    /\ drv = [coords |-> << >>, loaded |-> "no", counts |-> << >>]
    /\ pc = "mask"
    /\ cycle = 0
    /\ fifos = << >>
    /\ producers = << >>
    /\ consumers = << >>
    /\ tiles = << >>
    /\ tile_registry = << >>
    /\ unit_cycles = << >>
    /\ pf = << >>
    /\ dma = << >>
    /\ stats = << >>

MaskNonzero ==
    /\ drv.loaded = "no"
    /\ Len(drv.coords) < MaxNonzeros
    /\ \E o \in CoordSamples(cfg.C_out, POF), i \in CoordSamples(cfg.C_in, PIF) :
          drv' = [drv EXCEPT !.coords = Append(@, <<o, i, 0, 0>>)]
    /\ UNCHANGED <<cfg, pc, cycle, fifos, producers, consumers, tiles, tile_registry,
                   unit_cycles, pf, dma, stats>>

LoadMasks ==
    /\ drv.loaded = "no"
    /\ drv' = [drv EXCEPT !.loaded = "SFTM",
                          !.counts = SFTM_precompute_scu_counts_for_layer(cfg, drv.coords)]
    /\ UNCHANGED <<cfg, pc, cycle, fifos, producers, consumers, tiles, tile_registry,
                   unit_cycles, pf, dma, stats>>

LoadSparseMasks ==
    /\ drv.loaded = "no"
    /\ cfg.C_out = CHANNELS /\ cfg.C_in = CHANNELS
    /\ drv' = [drv EXCEPT !.loaded = "ProducerSFTM",
                          !.counts = ProducerSFTM_load_sparse_masks(drv.coords)]
    /\ UNCHANGED <<cfg, pc, cycle, fifos, producers, consumers, tiles, tile_registry,
                   unit_cycles, pf, dma, stats>>

NextMask == MaskNonzero \/ LoadMasks \/ LoadSparseMasks

SpecMask == InitMask /\ [][NextMask]_vars

(***************************************************************************)
(* SpecDma: a DMAEngine whose caller issues requests, steps the engine and *)
(* collects the completions in any order.  drv is the caller's record:     *)
(* issued[tag] is the engine cycle and the length of the call that         *)
(* returned tag, moved[tag] the engine cycle of the step that took tag out *)
(* of inflight, returned[tag] the number of times collect_completed has    *)
(* returned it.                                                            *)
(***************************************************************************)
DramLatencies == {0, 2}
\* <<bw, bw_den>>: 1/2, 1 and 3 bytes per cycle
Bandwidths == {<<1, 2>>, <<1, 1>>, <<3, 1>>}
IssueLengths == {1, 4}

InitDma ==
    /\ cfg \in {[dram_latency |-> l, bw |-> b[1], bw_den |-> b[2]] :
                    l \in DramLatencies, b \in Bandwidths}
    /\ dma = [DMAEngine_init(cfg.dram_latency, cfg.bw) EXCEPT !.bw_den = cfg.bw_den]
    /\ drv = [tags |-> << >>, issued |-> EmptyDict, moved |-> EmptyDict,
              returned |-> EmptyDict]
    /\ pc = "dma"
    /\ cycle = 0
    /\ fifos = << >>
    /\ producers = << >>
    /\ consumers = << >>
    /\ tiles = << >>
    /\ tile_registry = << >>
    /\ unit_cycles = << >>
    /\ pf = << >>
    /\ stats = << >>

DmaIssue ==
    /\ Len(drv.tags) < MaxIssues
    /\ \E length \in IssueLengths :
          LET r == DMAEngine_issue(dma, 0, length, << >>, "reference")
          IN  /\ dma' = r.dma
              /\ drv' = [drv EXCEPT !.tags = Append(@, r.tag),
                                    !.issued = DictSet(@, r.tag,
                                                  [c |-> dma.cycle, length |-> length]),
                                    !.returned = DictSet(@, r.tag, 0)]
    /\ UNCHANGED <<cfg, pc, cycle, fifos, producers, consumers, tiles, tile_registry,
                   unit_cycles, pf, stats>>

DmaStep ==
    /\ dma.cycle < MaxEngineCycle
    /\ dma' = DMAEngine_step(dma)
    /\ drv' = [drv EXCEPT !.moved =
                 [tag \in DOMAIN @ \cup ((DOMAIN dma.inflight) \ (DOMAIN dma'.inflight)) |->
                     IF tag \in DOMAIN @ THEN @[tag] ELSE dma'.cycle]]
    /\ UNCHANGED <<cfg, pc, cycle, fifos, producers, consumers, tiles, tile_registry,
                   unit_cycles, pf, stats>>

DmaCollect ==
    /\ LET r == DMAEngine_collect_completed(dma)
       IN  /\ dma' = r.dma
           /\ drv' = [drv EXCEPT !.returned =
                        [tag \in DOMAIN @ |->
                            @[tag] + Cardinality({i \in 1..Len(r.out) : r.out[i].tag = tag})]]
    /\ UNCHANGED <<cfg, pc, cycle, fifos, producers, consumers, tiles, tile_registry,
                   unit_cycles, pf, stats>>

NextDma == DmaIssue \/ DmaStep \/ DmaCollect

SpecDma == InitDma /\ [][NextDma]_vars

(***************************************************************************)
(* vcnpu.py: the SFTM of one core, the ExternalMemory and the statistics   *)
(* of the Controller that owns them.  A TileJob and a layer are records, a *)
(* dict is a function, None returned for a bank index is -1.  The fields   *)
(* weight_store and sparse_maps, which nothing reads, are left out.        *)
(***************************************************************************)
TileJob(layer, tile_idx, rows, cols, in_ch, out_ch, type) ==
    [layer |-> layer, tile_idx |-> tile_idx, rows |-> rows, cols |-> cols,
     in_ch |-> in_ch, out_ch |-> out_ch, type |-> type]

\* d.get(k, default)
DictGet(d, k, default) == IF k \in DOMAIN d THEN d[k] ELSE default

\* ExternalMemory(): bytes_per_cycle = 12.8e9 / 400e6
ExternalMemory_init ==
    [bytes_per_cycle |-> EXTERNAL_BYTES_PER_CYCLE, bytes_read |-> 0, bytes_written |-> 0]

\* write(b) with the cycles rounded down
ExternalMemory_write_floor(ext, b) ==
    [ext |-> [ext EXCEPT !.bytes_written = @ + b],
     cycles |-> IF ext.bytes_per_cycle > 0 THEN b \div ext.bytes_per_cycle ELSE 0]

\* write(b) -> cycles
ExternalMemory_write(ext, b) ==
    [ext |-> [ext EXCEPT !.bytes_written = @ + b],
     cycles |-> IF ext.bytes_per_cycle > 0 THEN CeilDiv(b, ext.bytes_per_cycle) ELSE 0]

\* Controller.stats, shared by the SFTMs of all cores
ControllerStats ==
    [cycles |-> 0, module_cycles |-> EmptyDict, mac_counts |-> EmptyDict,
     onchip_reads |-> 0, onchip_writes |-> 0, bytes_written_offchip |-> 0,
     scu_assigned |-> EmptyDict]

SFTM_init(core_id) ==
    [core_id |-> core_id,
     rows |-> POF,
     cols |-> PIF,
     job_queue |-> << >>,
     num_banks |-> SFTM_NUM_BANKS,
     bank_capacity |-> (SFTM_INPUT_BUFFER_KB * 1024) \div SFTM_NUM_BANKS,
     bank_used |-> [i \in 0..(SFTM_NUM_BANKS - 1) |-> 0],
     output_used |-> 0,
     output_capacity |-> SFTM_OUTPUT_BUFFER_KB * 1024,
     scu_counts_cache |-> EmptyDict]

SFTM_enqueue_job(s, job) == [s EXCEPT !.job_queue = Append(@, job)]

\* the bank the scan stops at when it runs from the last index down
SFTM_first_fit_from_top(s, bytes_needed) ==
    LET fit == {i \in 0..(s.num_banks - 1) :
                    s.bank_used[i] + bytes_needed <= s.bank_capacity}
    IN  IF fit = {} THEN -1 ELSE CHOOSE i \in fit : \A j \in fit : j <= i

\* the index at which `for i in range(num_banks)` returns, -1 when it ends
SFTM_first_fit(s, bytes_needed) ==
    LET fit == {i \in 0..(s.num_banks - 1) :
                    s.bank_used[i] + bytes_needed <= s.bank_capacity}
    IN  IF fit = {} THEN -1 ELSE SetMin(fit)

\* try_alloc_bank(bytes_needed) -> index or None
SFTM_try_alloc_bank(s, bytes_needed) ==
    LET i == SFTM_first_fit(s, bytes_needed)
    IN  IF i = -1 THEN [sftm |-> s, idx |-> -1]
        ELSE [sftm |-> [s EXCEPT !.bank_used[i] = @ + bytes_needed], idx |-> i]

SFTM_free_bank(s, idx, bytes_free) ==
    [s EXCEPT !.bank_used[idx] = Max(0, @ - bytes_free)]

\* out_patch_rows * out_patch_cols of process_tile
SFTM_patches(job) ==
    Max(1, CeilDiv(job.rows, 2)) * Max(1, CeilDiv(job.cols, 2))

\* int(num_patches * out_ch * mu2 * rho) of the analytic branch:
\* RHO_C = 0.375 = 3/8, RHO_D = 0.50 = 1/2
SFTM_analytic_total_mults(job) ==
    LET patches == SFTM_patches(job)
    IN  IF job.type = "RFConv" THEN (patches * job.out_ch * (MU_C * MU_C) * 3) \div 8
        ELSE IF job.type = "RFDeConv" THEN (patches * job.out_ch * (MU_D * MU_D)) \div 2
        ELSE patches * job.out_ch

\* counts of the analytic branch: the multiplies assigned to each SCU
SFTM_analytic_counts(s, job) ==
    LET total_mults == SFTM_analytic_total_mults(job)
        out_ch == job.out_ch
        out_per_row == Max(1, CeilDiv(out_ch, s.rows))
        base_mults_per_out == Max(1, total_mults \div Max(1, out_ch))
        oc_count(r) == Max(0, Min(out_ch, (r + 1) * out_per_row) - r * out_per_row)
    IN  [k \in 0..(s.rows * s.cols - 1) |-> oc_count(k \div s.cols) * base_mults_per_out]

\* process_tile(job, layer_spec) -> cycles, 0 when the tile cannot start;
\* returns [sftm, stats, ext, result]
SFTM_process_tile(s, st, ext, job_arg) ==
    IF s.job_queue = << >> THEN [sftm |-> s, stats |-> st, ext |-> ext, result |-> 0]
    ELSE
    LET queued == Head(s.job_queue)
        job == IF queued.layer # job_arg.layer \/ queued.tile_idx # job_arg.tile_idx
               THEN queued ELSE job_arg
        bytes_in == job.rows * job.cols * job.in_ch * ACTIVATION_BYTES
        a == SFTM_try_alloc_bank(s, bytes_in)
    IN  IF a.idx = -1 THEN [sftm |-> s, stats |-> st, ext |-> ext, result |-> 0]
        ELSE
        LET s1 == [a.sftm EXCEPT !.job_queue = Tail(@)]
            patches == SFTM_patches(job)
            cached == job.layer \in DOMAIN s.scu_counts_cache
            assigned_mults ==
                IF cached
                THEN [k \in DOMAIN s.scu_counts_cache[job.layer] |->
                         s.scu_counts_cache[job.layer][k] * patches]
                ELSE SFTM_analytic_counts(s, job)
            total_mults ==
                IF cached
                THEN np_sum(assigned_mults, s.rows * s.cols)
                ELSE SFTM_analytic_total_mults(job)
            cycles_per_scu ==
                [k \in DOMAIN assigned_mults |->
                    (assigned_mults[k] + SCU_MULTIPLIERS - 1) \div SCU_MULTIPLIERS]
            scu_cycles == IF DOMAIN cycles_per_scu # {} THEN SeqMax(cycles_per_scu) ELSE 0
            total_cycles == PRETU_LATENCY + scu_cycles + SCU_PIPELINE_LATENCY + POSTTU_LATENCY
            st1 == [st EXCEPT !.onchip_reads = @ + bytes_in,
                              !.mac_counts = DictSet(@, job.layer,
                                                     DictGet(@, job.layer, 0) + total_mults),
                              !.module_cycles = DictSet(@, "SFTM",
                                                        DictGet(@, "SFTM", 0) + total_cycles),
                              !.cycles = @ + total_cycles]
            bytes_out == job.rows * job.cols * job.out_ch * ACTIVATION_BYTES
            fits == s1.output_used + bytes_out <= s1.output_capacity
            w == ExternalMemory_write(ext, bytes_out)
            s2 == IF fits THEN [s1 EXCEPT !.output_used = @ + bytes_out] ELSE s1
            st2 == IF fits THEN [st1 EXCEPT !.onchip_writes = @ + bytes_out]
                   ELSE [st1 EXCEPT !.module_cycles = DictSet(@, "SFTM_mem",
                                                       DictGet(@, "SFTM_mem", 0) + w.cycles),
                                    !.cycles = @ + w.cycles,
                                    !.bytes_written_offchip = @ + bytes_out]
        IN  [sftm |-> SFTM_free_bank(s2, a.idx, bytes_in),
             stats |-> st2,
             ext |-> IF fits THEN ext ELSE w.ext,
             result |-> total_cycles]

(***************************************************************************)
(* SpecSftm: one SFTM with its statistics and ExternalMemory, driven by a  *)
(* caller that caches SCU counts for layers, enqueues jobs, allocates and  *)
(* frees input banks and calls process_tile.  drv holds the SFTM, the      *)
(* memory and the caller's record: h_op is the call it made last, held the *)
(* set of <<bank, bytes>> it has allocated and not freed, h_bytes and      *)
(* h_idx the argument and the value returned of its last try_alloc_bank,   *)
(* h_result the value its last process_tile returned and h_nonzeros[layer] *)
(* the number of mask nonzeros cached for the layer.                       *)
(***************************************************************************)
SftmLayers ==
    <<[name |-> "RFConv0", type |-> "RFConv", C_in |-> CHANNELS, C_out |-> CHANNELS],
      [name |-> "RFConv1", type |-> "RFConv", C_in |-> 3, C_out |-> 5],
      [name |-> "RFDeConv0", type |-> "RFDeConv", C_in |-> CHANNELS, C_out |-> CHANNELS],
      [name |-> "FE_Conv1", type |-> "Conv", C_in |-> 3, C_out |-> CHANNELS]>>

\* <<layer index, tile_idx, rows, cols>>: a full bank, one column more than
\* a bank holds, odd sides, a small tile and a tile whose output nearly
\* fills the output buffer
SftmTiles ==
    {<<1, <<0, 0, 0>>, 8, 14>>, <<1, <<0, 1, 0>>, 8, 15>>, <<2, <<0, 0, 1>>, 3, 5>>,
     <<3, <<0, 0, 2>>, 4, 7>>, <<4, <<0, 0>>, 7, 65>>}

SftmJobs ==
    {TileJob(SftmLayers[t[1]].name, t[2], t[3], t[4], SftmLayers[t[1]].C_in,
             SftmLayers[t[1]].C_out, SftmLayers[t[1]].type) : t \in SftmTiles}

\* the mask coordinates <<o, i, mu0, mu1>> in the files of the first two layers
SftmMasks ==
    <<<<<<0, 0, 0, 0>>, <<0, 1, 1, 1>>, <<35, 2, 0, 3>>>>,
      <<<<1, 0, 2, 2>>, <<1, 0, 3, 3>>>>>>

SftmAllocBytes == {6000}

InitSftm ==
    /\ cfg = SftmLayers
    /\ drv = [sftm |-> SFTM_init(0), ext |-> ExternalMemory_init, held |-> {},
              h_op |-> "init", h_enqueued |-> 0, h_bytes |-> 0, h_idx |-> -1,
              h_result |-> 0, h_nonzeros |-> EmptyDict]
    /\ stats = ControllerStats
    /\ pc = "sftm"
    /\ cycle = 0
    /\ fifos = << >>
    /\ producers = << >>
    /\ consumers = << >>
    /\ tiles = << >>
    /\ tile_registry = << >>
    /\ unit_cycles = << >>
    /\ pf = << >>
    /\ dma = << >>

\* the scu_counts_cache that Controller.load_masks leaves in an SFTM whose
\* cache was c, the mask directory holding the files of the layers 1..n
RECURSIVE Controller_load_masks_cache(_, _, _)
Controller_load_masks_cache(c, layers, n) ==
    IF n = 0 THEN c
    ELSE DictSet(Controller_load_masks_cache(c, layers, n - 1), layers[n].name,
                 SFTM_precompute_scu_counts_for_layer(layers[n], SftmMasks[n]))

\* Controller.load_masks(mask_dir), on this SFTM, before any other call
SftmLoadMasks ==
    /\ drv.h_op = "init"
    /\ drv' = [drv EXCEPT
                 !.sftm.scu_counts_cache =
                     Controller_load_masks_cache(@, cfg, Len(SftmMasks)),
                 !.h_nonzeros = [n \in {cfg[l].name : l \in DOMAIN SftmMasks} |->
                                    Len(SftmMasks[CHOOSE l \in DOMAIN SftmMasks :
                                                      cfg[l].name = n])],
                 !.h_op = "load_masks"]
    /\ UNCHANGED <<cfg, pc, cycle, fifos, producers, consumers, tiles, tile_registry,
                   unit_cycles, pf, dma, stats>>

SftmEnqueue ==
    /\ drv.h_enqueued < MaxEnqueued
    /\ \E job \in SftmJobs :
          drv' = [drv EXCEPT !.sftm = SFTM_enqueue_job(@, job), !.h_enqueued = @ + 1,
                             !.h_op = "enqueue_job"]
    /\ UNCHANGED <<cfg, pc, cycle, fifos, producers, consumers, tiles, tile_registry,
                   unit_cycles, pf, dma, stats>>

SftmAlloc ==
    /\ \E b \in SftmAllocBytes :
          LET a == SFTM_try_alloc_bank(drv.sftm, b)
          IN  drv' = [drv EXCEPT !.sftm = a.sftm,
                                 !.h_bytes = b,
                                 !.h_idx = a.idx,
                                 !.h_op = "try_alloc_bank",
                                 !.held = IF a.idx = -1 THEN @ ELSE @ \cup {<<a.idx, b>>}]
    /\ UNCHANGED <<cfg, pc, cycle, fifos, producers, consumers, tiles, tile_registry,
                   unit_cycles, pf, dma, stats>>

SftmFree ==
    /\ \E h \in drv.held :
          drv' = [drv EXCEPT !.sftm = SFTM_free_bank(@, h[1], h[2]),
                             !.held = @ \ {h},
                             !.h_op = "free_bank"]
    /\ UNCHANGED <<cfg, pc, cycle, fifos, producers, consumers, tiles, tile_registry,
                   unit_cycles, pf, dma, stats>>

\* process_tile(head, layer_spec), as Controller.run calls it
SftmProcessTile ==
    /\ drv.sftm.job_queue # << >>
    /\ LET r == SFTM_process_tile(drv.sftm, stats, drv.ext, Head(drv.sftm.job_queue))
       IN  /\ drv' = [drv EXCEPT !.sftm = r.sftm, !.ext = r.ext,
                                 !.h_op = "process_tile", !.h_result = r.result]
           /\ stats' = r.stats
    /\ UNCHANGED <<cfg, pc, cycle, fifos, producers, consumers, tiles, tile_registry,
                   unit_cycles, pf, dma>>

NextSftm == SftmLoadMasks \/ SftmEnqueue \/ SftmAlloc \/ SftmFree \/ SftmProcessTile

SpecSftm == InitSftm /\ [][NextSftm]_vars

(***************************************************************************)
(* vcnpu.py: the Controller.  cores[i] is [sftm, dpm], dpm the queue of    *)
(* the core's DfConvModule; a layer is the record of the fields of its     *)
(* dict that start_frame and run read.  C is the record [cores, stats,     *)
(* ext, work_done] that the loop of run passes along.                      *)
(***************************************************************************)
\* build_repvcn_layers(H, W, N)
build_repvcn_layers(N) ==
    <<[name |-> "FE_Conv1", type |-> "Conv", C_in |-> 3, C_out |-> N],
      [name |-> "FE_Conv2", type |-> "Conv", C_in |-> N, C_out |-> N],
      [name |-> "RFConv0", type |-> "RFConv", C_in |-> N, C_out |-> N],
      [name |-> "RFConv1", type |-> "RFConv", C_in |-> N, C_out |-> N],
      [name |-> "RFDeConv0", type |-> "RFDeConv", C_in |-> N, C_out |-> N],
      [name |-> "DfConv_comp", type |-> "DfConv", C_in |-> N, C_out |-> N],
      [name |-> "RFConv2", type |-> "RFConv", C_in |-> N, C_out |-> N],
      [name |-> "RFConv3", type |-> "RFConv", C_in |-> N, C_out |-> N],
      [name |-> "RFDeConv1", type |-> "RFDeConv", C_in |-> N, C_out |-> N],
      [name |-> "Recon_Conv", type |-> "Conv", C_in |-> N, C_out |-> 3]>>

\* Controller(): the cores
Controller_init ==
    [i \in 0..(NUM_CORES - 1) |-> [sftm |-> SFTM_init(i), dpm |-> << >>]]

\* the `while True` of start_frame: the tile height it leaves with
RECURSIVE Controller_fit_rows(_, _, _)
Controller_fit_rows(rows, channels, bank_cap) ==
    LET max_cols == Max(1, bank_cap \div (rows * channels * ACTIVATION_BYTES))
    IN  IF max_cols >= 1 THEN rows
        ELSE Controller_fit_rows(Max(1, rows \div 2), channels, bank_cap)

\* the jobs start_frame makes for the tile (rt, ct): [sftm, dpm]
Controller_tile_jobs(layers, rt, ct, row_h, col_w) ==
    LET names == {layers[i].name : i \in DOMAIN layers}
        Layer(n) == layers[CHOOSE i \in DOMAIN layers :
                              /\ layers[i].name = n
                              /\ \A j \in DOMAIN layers : layers[j].name = n => j <= i]
        r0 == Layer("RFConv0")
        r1 == Layer("RFConv1")
        rd == Layer("RFDeConv0")
        Job(i) == TileJob(layers[i].name, <<rt, ct>>, row_h, col_w, layers[i].C_in,
                          layers[i].C_out, layers[i].type)
        all == [i \in DOMAIN layers |-> Job(i)]
    IN  IF {"RFConv0", "RFConv1", "RFDeConv0"} \subseteq names
        THEN [sftm |-> <<TileJob(r0.name, <<rt, ct, 0>>, row_h, col_w, r0.C_in, r0.C_out,
                                 "RFConv"),
                         TileJob(r1.name, <<rt, ct, 1>>, row_h, col_w, r1.C_in, r1.C_out,
                                 "RFConv"),
                         TileJob(rd.name, <<rt, ct, 2>>, DEFAULT_TILE_OUTPUT_ROWS, col_w,
                                 rd.C_in, rd.C_out, "RFDeConv")>>,
              dpm |-> << >>]
        ELSE [sftm |-> SelectSeq(all, LAMBDA j : j.type \in {"RFConv", "RFDeConv", "Conv",
                                                             "DeConv"}),
              dpm |-> SelectSeq(all, LAMBDA j : j.type = "DfConv")]

\* start_frame, the loop over the column tiles ct, ct + 1, ... of row rt
RECURSIVE Controller_enqueue_cols(_, _, _, _, _, _, _)
Controller_enqueue_cols(cores, layers, frame_W, rt, ct, row_h, max_cols) ==
    LET num_col_tiles == CeilDiv(frame_W, max_cols)
        col_w == IF ct < num_col_tiles - 1 THEN max_cols
                 ELSE frame_W - (num_col_tiles - 1) * max_cols
        core_idx == (rt * num_col_tiles + ct) % NUM_CORES
        jobs == Controller_tile_jobs(layers, rt, ct, row_h, col_w)
    IN  IF ct >= num_col_tiles THEN cores
        ELSE Controller_enqueue_cols(
                 [cores EXCEPT ![core_idx].sftm.job_queue = @ \o jobs.sftm,
                               ![core_idx].dpm = @ \o jobs.dpm],
                 layers, frame_W, rt, ct + 1, row_h, max_cols)

\* start_frame, the loop over the row tiles rt, rt + 1, ...
RECURSIVE Controller_enqueue_rows(_, _, _, _, _, _, _)
Controller_enqueue_rows(cores, layers, frame_H, frame_W, rows, channels, rt) ==
    LET bank_cap == cores[0].sftm.bank_capacity
        num_row_tiles == CeilDiv(frame_H, rows)
        row_h == IF rt < num_row_tiles - 1 THEN rows
                 ELSE frame_H - (num_row_tiles - 1) * rows
        max_cols == Max(1, bank_cap \div (row_h * channels * ACTIVATION_BYTES))
    IN  IF rt >= num_row_tiles THEN cores
        ELSE Controller_enqueue_rows(
                 Controller_enqueue_cols(cores, layers, frame_W, rt, 0, row_h, max_cols),
                 layers, frame_H, frame_W, rows, channels, rt + 1)

\* start_frame(frame_id, frame_H, frame_W): the cores with the jobs enqueued
Controller_start_frame(cores, layers, frame_H, frame_W) ==
    LET channels == IF layers # << >> THEN layers[1].C_out ELSE 36
        rows == Controller_fit_rows(Min(DEFAULT_TILE_INPUT_ROWS, frame_H), channels,
                                    cores[0].sftm.bank_capacity)
    IN  Controller_enqueue_rows(cores, layers, frame_H, frame_W, rows, channels, 0)

\* run, the body of `for core in self.cores` for core i
Controller_run_core(C, i) ==
    LET Processed(r) ==
            [C EXCEPT !.cores[i].sftm = r.sftm, !.stats = r.stats, !.ext = r.ext,
                      !.work_done = @ \/ r.result > 0]
        WithSftm(sftm) ==
            IF sftm.job_queue = << >> THEN C
            ELSE Processed(SFTM_process_tile(sftm, C.stats, C.ext, Head(sftm.job_queue)))
        DfConv(C1, job) ==
            LET out_pixels == job.rows * job.cols
                interp == out_pixels * DFCONV_INTERP_COST_PER_SAMPLE
                macs == (out_pixels * job.out_ch * 9 * job.in_ch) \div 4
                total == interp + CeilDiv(macs, DFCONV_PE_COUNT)
            IN  [C1 EXCEPT !.cores[i].dpm = Tail(@),
                           !.stats.module_cycles =
                               DictSet(@, "DfConv", DictGet(@, "DfConv", 0) + total),
                           !.stats.cycles = @ + total,
                           !.stats.mac_counts =
                               DictSet(@, job.layer, DictGet(@, job.layer, 0) + macs),
                           !.work_done = TRUE]
        WithDpm(C1, dpm) == IF dpm = << >> THEN C1 ELSE DfConv(C1, Head(dpm))
    IN  WithDpm(WithSftm(C.cores[i].sftm), C.cores[i].dpm)

\* run, the loop over the cores i, i + 1, ...
RECURSIVE Controller_run_cores(_, _)
Controller_run_cores(C, i) ==
    IF i >= NUM_CORES THEN C ELSE Controller_run_cores(Controller_run_core(C, i), i + 1)

(***************************************************************************)
(* SpecController: Controller.start_frame and Controller.run on a frame    *)
(* and a layer list.  cfg is [frame_H, frame_W, layers, cycle_limit]; pc   *)
(* is "model" once load_model has returned, "run" in the loop of run and   *)
(* "done" once run has returned; drv holds the cores and the memory.       *)
(***************************************************************************)
\* <<frame_H, frame_W>>
FrameSizes == {<<8, 30>>, <<16, 30>>, <<8, 57>>, <<4, 14>>, <<9, 30>>, <<2, 57>>}

LayerLists ==
    {build_repvcn_layers(CHANNELS),
     build_repvcn_layers(1024),
     <<[name |-> "FE_Conv1", type |-> "Conv", C_in |-> 3, C_out |-> CHANNELS],
       [name |-> "DfConv_comp", type |-> "DfConv", C_in |-> CHANNELS, C_out |-> CHANNELS]>>}

\* the default of run and a limit that the first tiles pass
CycleLimits == {1000000000, 100}

InitController ==
    /\ cfg \in {[frame_H |-> f[1], frame_W |-> f[2], layers |-> l, cycle_limit |-> c] :
                    f \in FrameSizes, l \in LayerLists, c \in CycleLimits}
    /\ drv = [cores |-> Controller_init, ext |-> ExternalMemory_init]
    /\ stats = ControllerStats
    /\ pc = "model"
    /\ cycle = 0
    /\ fifos = << >>
    /\ producers = << >>
    /\ consumers = << >>
    /\ tiles = << >>
    /\ tile_registry = << >>
    /\ unit_cycles = << >>
    /\ pf = << >>
    /\ dma = << >>

CtlStartFrame ==
    /\ pc = "model"
    /\ pc' = "run"
    /\ drv' = [drv EXCEPT !.cores = Controller_start_frame(@, cfg.layers, cfg.frame_H,
                                                           cfg.frame_W)]
    /\ UNCHANGED <<cfg, cycle, fifos, producers, consumers, tiles, tile_registry,
                   unit_cycles, pf, dma, stats>>

\* one pass of the `while True` of run
CtlRunPass ==
    /\ pc = "run"
    /\ LET C == Controller_run_cores([cores |-> drv.cores, stats |-> stats, ext |-> drv.ext,
                                      work_done |-> FALSE], 0)
       IN  /\ drv' = [drv EXCEPT !.cores = C.cores, !.ext = C.ext]
           /\ stats' = C.stats
           /\ pc' = IF ~C.work_done \/ C.stats.cycles > cfg.cycle_limit
                    THEN "done" ELSE "run"
    /\ UNCHANGED <<cfg, cycle, fifos, producers, consumers, tiles, tile_registry,
                   unit_cycles, pf, dma>>

NextController == CtlStartFrame \/ CtlRunPass

SpecController == InitController /\ [][NextController]_vars

(***************************************************************************)
(* Properties of Simulator.run (Spec), of the BankedGroupFIFO (SpecFifo)   *)
(* and of the SplitPrefetcher with its DMAEngine (SpecPrefetch).           *)
(***************************************************************************)

\* C1: a consumer pops a tile only in a step in which that tile is the head of
\* its unit's FIFO and has motion_ready and reference_ready, and in which the
\* consumer's cycle has reached next_consume and dpm_busy_until; the pop sets
\* dpm_busy_until to that cycle plus the tile's dpm_cycles, so the unit pops
\* no second tile before the dpm_cycles of the first have elapsed.
C1_PopOnlyWhenReady ==
    [][\A u \in Units(cfg) :
          consumers'[u].consumed # consumers[u].consumed =>
              LET g == consumers'[u].active_tile
              IN  /\ consumers'[u].consumed = consumers[u].consumed + 1
                  /\ fifos[u].queue # << >>
                  /\ Head(fifos[u].queue) = g
                  /\ fifos'[u].pop_success = fifos[u].pop_success + 1
                  /\ tiles[u][g].motion_ready
                  /\ tiles[u][g].reference_ready
                  /\ consumers'[u].cycle >= consumers[u].next_consume
                  /\ consumers'[u].cycle >= consumers[u].dpm_busy_until
                  /\ consumers'[u].dpm_busy_until =
                         consumers'[u].cycle + ConsumerDPM_compute_dpm_cycles(tiles[u][g])[1]
      ]_vars

\* a consumer has waited out the dpm_cycles of its first tile and popped a second
C1_SecondPopAfterBusy ==
    \E u \in Units(cfg) :
        /\ consumers[u].consumed = 2
        /\ consumers[u].cycle = consumers[u].dpm_busy_until
                                   - ConsumerDPM_compute_dpm_cycles(
                                         tiles[u][consumers[u].active_tile])[1]
        /\ consumers[u].cycle > ConsumerDPM_compute_dpm_cycles(tiles[u][1])[1]

\* C2: every unit's FIFO holds at most banks * group_slots_per_bank tiles, and
\* the reported fifo_max_occupancy does not exceed that capacity.
C2_FifoWithinCapacity ==
    \A u \in Units(cfg) :
        /\ Len(fifos[u].queue) <= fifos[u].banks * fifos[u].group_slots_per_bank
        /\ stats.fifo_max_occupancy <= fifos[u].banks * fifos[u].group_slots_per_bank

\* a FIFO of two slots is full and the maximum reported is its capacity
C2_FifoAtCapacity ==
    \E u \in Units(cfg) :
        /\ fifos[u].banks * fifos[u].group_slots_per_bank = 2
        /\ Len(fifos[u].queue) = 2
        /\ stats.fifo_max_occupancy = 2

\* C3: the number of in-flight DMA requests never exceeds max_outstanding, and
\* an entry that has not been issued (status pending) is in the pending queue,
\* which holds pending entries only.
C3_OutstandingWithinMax ==
    /\ Cardinality(DOMAIN dma.inflight) <= pf.max_outstanding
    /\ \A e \in 1..Len(pf.entries) :
          pf.entries[e].status = "pending" <=> e \in SeqToSet(pf.prefetch_queue)

\* the DMA engine is at max_outstanding and an entry waits in the pending queue
C3_QueueWaitsAtMax ==
    /\ Cardinality(DOMAIN dma.inflight) = pf.max_outstanding
    /\ pf.prefetch_queue # << >>
    /\ pf.entries[Head(pf.prefetch_queue)].status = "pending"

\* C4: every tile pushed into a FIFO eventually has reference_ready set and is
\* popped.  A reference_ready is set by a DMA completion only, so once no
\* producer has a tile left to deliver, no prefetch is pending and no DMA is
\* in flight, every tile still resident in a FIFO must have reference_ready.
C4_NoTileLeftWaiting ==
    (/\ \A u \in Units(cfg) :
           producers[u].issued >= producers[u].groups_total /\ producers[u].active_tile = 0
     /\ pf.prefetch_queue = << >>
     /\ DOMAIN dma.inflight = {}
     /\ dma.completed = << >>)
    => \A u \in Units(cfg) :
          \A g \in SeqToSet(fifos[u].queue) : tiles[u][g].reference_ready

\* C5: distinct resident tiles occupy distinct (bank, local_slot) slots, and
\* each resident gid is recorded in exactly one slot of the slot table.
C5_SlotsInjective ==
    LET f == fifos[0]
        resident == SeqToSet(f.queue)
        SlotsOf(g) == {bs \in (0..(f.banks - 1)) \X (0..(f.group_slots_per_bank - 1)) :
                          f.bank_slots[bs[1]][bs[2]] = g}
    IN  /\ resident \subseteq DOMAIN f.tile_to_slot
        /\ \A g, h \in resident : g # h => f.tile_to_slot[g] # f.tile_to_slot[h]
        /\ \A g \in resident : SlotsOf(g) = {f.tile_to_slot[g]}

\* C6: in the step in which the DMA of a reference entry completes,
\* reference_ready becomes true on every tile, of every unit, whose prefetch
\* submission returned that entry.
C6_CompletionFlagsLinkedTiles ==
    [][\A e \in 1..Len(pf'.entries) :
          (/\ pf'.entries[e].request_type = "reference"
           /\ pf'.entries[e].status = "done"
           /\ (e > Len(pf.entries) \/ pf.entries[e].status # "done"))
          => \A u \in Units(cfg) :
                \A g \in 1..Len(tiles'[u]) :
                    tiles'[u][g].h_entry = e => tiles'[u][g].reference_ready
      ]_vars

\* C7 as stated: an entry of the prefetch table whose status is inflight is
\* never removed from the table.
C7_InflightNeverRemoved ==
    [][\A e \in SeqToSet(pf.ptable) :
          pf.entries[e].status = "inflight" => e \in SeqToSet(pf'.ptable)
      ]_vars

\* C7 amended: an inflight entry is removed from the prefetch table only when
\* the table is full and every entry in it is inflight, and the entry removed
\* is then the first of the table.
C7_InflightRemovedOnlyWhenAllInflight ==
    [][\A e \in SeqToSet(pf.ptable) :
          (pf.entries[e].status = "inflight" /\ e \notin SeqToSet(pf'.ptable))
          => /\ Len(pf.ptable) = pf.ptable_entries
             /\ \A x \in SeqToSet(pf.ptable) : pf.entries[x].status = "inflight"
             /\ e = pf.ptable[1]
             /\ SeqToSet(pf.ptable) \ {e} \subseteq SeqToSet(pf'.ptable)
      ]_vars

\* an entry is in flight and no longer in the prefetch table
C7_InflightEvicted ==
    \E e \in 1..Len(pf.entries) :
        /\ pf.entries[e].status = "inflight"
        /\ pf.entries[e].tag \in DOMAIN dma.inflight
        /\ e \notin SeqToSet(pf.ptable)
        /\ Len(pf.ptable) = pf.ptable_entries

\* C8: at the end of every step groups_produced - groups_consumed -
\* bypass_mode_used is the number of tiles resident in all FIFOs.
C8_ProducedConsumedBalance ==
    LET RECURSIVE Resident(_)
        Resident(n) == IF n = 0 THEN 0 ELSE Len(fifos[n - 1].queue) + Resident(n - 1)
    IN  stats.groups_produced - stats.groups_consumed - stats.bypass_mode_used
            = Resident(cfg.num_parallel_units)

\* tiles have been consumed and bypassed and another one is resident
C8_BalanceWithAllThree ==
    /\ stats.groups_consumed > 0
    /\ stats.bypass_mode_used > 0
    /\ ~cfg.bypass_mode
    /\ \E u \in Units(cfg) : fifos[u].queue # << >>

\* C9: a tile is popped in a cycle strictly later than the cycle in which its
\* producer delivered it, and not earlier than the cycle in which a DMA
\* completion set its reference_ready.
C9_PopAfterProducedAndReady ==
    [][\A u \in Units(cfg) :
          consumers'[u].consumed # consumers[u].consumed =>
              LET t == tiles[u][consumers'[u].active_tile]
              IN  /\ t.h_produced # 0
                  /\ cycle' > t.h_produced
                  /\ t.h_ready # 0
                  /\ cycle' >= t.h_ready
                  /\ t.h_ready >= t.h_produced
      ]_vars

\* a tile whose reference_ready was set after its delivery has been popped,
\* later still
C9_PoppedAfterReady ==
    \E u \in Units(cfg) :
        /\ consumers[u].active_tile # 0
        /\ LET t == tiles[u][consumers[u].active_tile]
               popped == consumers[u].dpm_busy_until - ConsumerDPM_compute_dpm_cycles(t)[1]
           IN  /\ t.h_produced < t.h_ready
               /\ t.h_ready < popped

\* C10: a tile that finishes in its producer while the unit's FIFO is full is
\* marked bypass_mode and is not inserted: the FIFO keeps its contents (but
\* for the head that the unit's consumer may pop in the same step); every
\* finished tile is counted once in groups_produced, every bypassed one once
\* in bypass_mode_used; and no FIFO ever holds a tile marked bypass_mode.
C10_BypassWhenFull ==
    [][LET Finishing(u) == /\ producers[u].active_tile # 0
                           /\ producers'[u].active_tile = 0
           Full(u) == Len(fifos[u].queue) >= fifos[u].max_groups
           Bypassing(u) == Finishing(u) /\ (cfg.bypass_mode \/ Full(u))
       IN  /\ \A u \in Units(cfg) :
                 (Finishing(u) /\ Full(u)) =>
                     LET g == producers[u].active_tile
                     IN  /\ tiles'[u][g].bypass_mode
                         /\ fifos'[u].push_attempts = fifos[u].push_attempts
                         /\ \/ fifos'[u].queue = fifos[u].queue
                               /\ fifos'[u].bank_slots = fifos[u].bank_slots
                               /\ fifos'[u].tile_to_slot = fifos[u].tile_to_slot
                            \/ consumers'[u].consumed # consumers[u].consumed
                               /\ fifos'[u].queue = Tail(fifos[u].queue)
           /\ stats'.groups_produced =
                 stats.groups_produced + Cardinality({u \in Units(cfg) : Finishing(u)})
           /\ stats'.bypass_mode_used =
                 stats.bypass_mode_used + Cardinality({u \in Units(cfg) : Bypassing(u)})
           /\ \A u \in Units(cfg) :
                 \A g \in SeqToSet(fifos'[u].queue) : ~tiles'[u][g].bypass_mode
      ]_vars

\* a tile was bypassed because its FIFO was full, and the FIFO is still full
C10_BypassedOnFullFifo ==
    \E u \in Units(cfg) :
        /\ ~cfg.bypass_mode
        /\ Len(fifos[u].queue) = fifos[u].max_groups
        /\ \E g \in 1..Len(tiles[u]) :
              /\ tiles[u][g].bypass_mode
              /\ g \notin SeqToSet(fifos[u].queue)
              /\ tiles[u][g].h_produced = cycle

\* C11: whenever a produced tile finds its unit's FIFO full, the FIFO's
\* overflow_count is incremented, so the reported fifo_overflow_count is the
\* number of tiles bypassed because of a full FIFO (with bypass_mode off,
\* every bypassed tile).
C11_OverflowCountsFullFifoBypasses ==
    ~cfg.bypass_mode =>
        simulate_frame_proposed_standardized(Simulator_run_result(SimState))
            .fifo_stats.overflow_count = stats.bypass_mode_used

\* C12: a bypassed tile is counted as consumed, so every run reaches
\* groups_consumed >= groups_total: once every producer has delivered all its
\* tiles and no tile is resident in a FIFO, every tile has been consumed or
\* bypassed, and groups_consumed has reached groups_total.
C12_BypassedCountAsConsumed ==
    (\A u \in Units(cfg) :
        /\ producers[u].issued >= producers[u].groups_total
        /\ producers[u].active_tile = 0
        /\ fifos[u].queue = << >>)
    => stats.groups_consumed >= cfg.groups_total

\* C13: run stops right after the first step at which groups_consumed >=
\* groups_total, and otherwise once cycle has reached max_cycles: while run is
\* in its loop no step has yet returned done, cycle never exceeds max_cycles,
\* and run has returned only after a step that was done or at max_cycles.
C13_RunStopsAtDoneOrCap ==
    /\ cycle <= cfg.max_cycles
    /\ stats.cycles = cycle
    /\ pc = "run" => stats.groups_consumed < cfg.groups_total
    /\ pc = "done" => stats.groups_consumed >= cfg.groups_total \/ cycle = cfg.max_cycles

\* run has returned before max_cycles, after the step of the last pop
C13_StoppedWhenDone ==
    /\ pc = "done"
    /\ cycle < cfg.max_cycles
    /\ stats.groups_consumed = cfg.groups_total
    /\ \E u \in Units(cfg) :
          consumers[u].cycle = cycle
          /\ consumers[u].dpm_busy_until
                 = cycle + ConsumerDPM_compute_dpm_cycles(tiles[u][consumers[u].active_tile])[1]

\* C14: every DMA request issued by the prefetcher has a base address and a
\* length that are multiples of DRAM_ALIGNMENT, and its range contains the
\* unaligned range of the submission that created its entry.
C14_IssuedRequestsAligned ==
    \A tag \in DOMAIN dma.inflight :
        LET req == dma.inflight[tag]
        IN  /\ req.base_addr % DRAM_ALIGNMENT = 0
            /\ req.length % DRAM_ALIGNMENT = 0
            /\ req.length > 0
            /\ tag \in DOMAIN pf.tag_to_entry
            /\ LET e == pf.entries[pf.tag_to_entry[tag]]
               IN  /\ e.base_addr = req.base_addr
                   /\ e.length = req.length
                   /\ req.base_addr <= e.h_base
                   /\ e.h_base + e.h_length <= req.base_addr + req.length

\* a request is in flight for an entry that another submission was coalesced
\* into and that a third had its destination attached to
C14_CoalescedRequestInFlight ==
    \E tag \in DOMAIN dma.inflight :
        LET e == pf.entries[pf.tag_to_entry[tag]]
        IN  /\ dma.inflight[tag].length = 2 * DRAM_ALIGNMENT
            /\ e.h_base + e.h_length < dma.inflight[tag].base_addr + DRAM_ALIGNMENT
            /\ Len(e.dest_banks) = 3
            /\ pf.requests_coalesced = 1

\* C15: whenever coalesce_enqueue merges a submission into the tail of the
\* pending queue, the tail's resulting length is at most coalesce_bytes, the
\* tail has the request type of the submission, and the tail has not been
\* issued to the DMA engine (it is pending, without a tag).
C15_MergeWithinCoalesceBytes ==
    [][pf'.requests_coalesced # pf.requests_coalesced =>
          /\ pf'.requests_coalesced = pf.requests_coalesced + 1
          /\ pf.prefetch_queue # << >>
          /\ pf'.prefetch_queue = pf.prefetch_queue
          /\ LET tail == pf.prefetch_queue[Len(pf.prefetch_queue)]
             IN  /\ pf'.entries[tail].length <= cfg.coalesce_bytes
                 /\ pf'.entries[tail].length >= pf.entries[tail].length
                 /\ pf'.entries[tail].base_addr <= pf.entries[tail].base_addr
                 /\ pf.entries[tail].request_type = drv'.last_type
                 /\ pf.entries[tail].status = "pending"
                 /\ pf'.entries[tail].status = "pending"
                 /\ pf.entries[tail].tag = 0
                 /\ \A tag \in DOMAIN pf.tag_to_entry : pf.tag_to_entry[tag] # tail
      ]_vars

\* a submission has been merged into a tail that grew to coalesce_bytes while
\* a request of the same type was in flight
C15_MergedToTheLimit ==
    /\ pf.requests_coalesced = 1
    /\ pf.prefetch_queue # << >>
    /\ LET tail == pf.entries[pf.prefetch_queue[Len(pf.prefetch_queue)]]
       IN  /\ tail.length = cfg.coalesce_bytes
           /\ Len(tail.dest_banks) = 2
           /\ \E tag \in DOMAIN dma.inflight :
                 dma.inflight[tag].request_type = tail.request_type

C17_ScuCountsPartitionNonzeros ==
    drv.loaded # "no" =>
        LET Scu(nz) == Min(POF - 1, nz[1] \div CeilDiv(cfg.C_out, POF)) * PIF
                         + Min(PIF - 1, nz[2] \div CeilDiv(cfg.C_in, PIF))
            RECURSIVE Sum(_)
            Sum(k) == IF k < 0 THEN 0 ELSE drv.counts[k] + Sum(k - 1)
        IN  /\ \A j \in 1..Len(drv.coords) :
                  /\ 0 <= drv.coords[j][1] /\ drv.coords[j][1] < cfg.C_out
                  /\ 0 <= drv.coords[j][2] /\ drv.coords[j][2] < cfg.C_in
            /\ DOMAIN drv.counts = 0..(POF * PIF - 1)
            /\ \A k \in DOMAIN drv.counts :
                  drv.counts[k] = Cardinality({j \in 1..Len(drv.coords) : Scu(drv.coords[j]) = k})
            /\ Sum(POF * PIF - 1) = Len(drv.coords)

\* a loaded mask of three nonzeros, two of them in one SCU of the last row
\* and one in another SCU
C17_TwoNonzerosInOneScu ==
    /\ drv.loaded # "no"
    /\ Len(drv.coords) = 3
    /\ \E k \in (POF - 1) * PIF .. (POF * PIF - 1) : drv.counts[k] = 2
    /\ \E k \in 1..(POF * PIF - 1) : drv.counts[k] = 1

\* The life of the requests of SpecDma when a request of length len is given
\* transfer[len] cycles: issue returns tags that differ, a request in flight
\* has done_cycle = issue cycle + DRAM_LATENCY + transfer[length] and the
\* engine cycle is below it, and a request no longer in flight left in the
\* step that brought the engine cycle to done_cycle and is either in the
\* completed list once or has been returned by collect_completed once.
DmaLifecycle(transfer) ==
    LET Done(t) == drv.issued[t].c + cfg.dram_latency + transfer[drv.issued[t].length]
        InCompleted(t) == Cardinality({i \in 1..Len(dma.completed) : dma.completed[i].tag = t})
    IN  /\ \A i, j \in 1..Len(drv.tags) : i # j => drv.tags[i] # drv.tags[j]
        /\ DOMAIN dma.inflight \subseteq SeqToSet(drv.tags)
        /\ \A t \in SeqToSet(drv.tags) :
              IF t \in DOMAIN dma.inflight
              THEN /\ dma.inflight[t].done_cycle = Done(t)
                   /\ dma.cycle < Done(t)
                   /\ t \notin DOMAIN drv.moved
                   /\ InCompleted(t) = 0
                   /\ drv.returned[t] = 0
              ELSE /\ t \in DOMAIN drv.moved
                   /\ drv.moved[t] = Done(t)
                   /\ InCompleted(t) + drv.returned[t] = 1

\* C18 as stated: issue at engine cycle c returns a fresh tag and records
\* done_cycle = c + DRAM_LATENCY + max(1, ceil(length / bw)); the request stays
\* in flight until the step in which the engine cycle first reaches done_cycle,
\* is moved to the completed list in exactly that step and is returned by
\* collect_completed exactly once.
C18_DoneCycleByBandwidth ==
    DmaLifecycle([len \in IssueLengths |-> Max(1, CeilDiv(len * cfg.bw_den, cfg.bw))])

\* C18 with the transfer time the code computes: the same with done_cycle =
\* c + DRAM_LATENCY + max(1, ceil(length / max(1, bw))), where a bandwidth
\* below one byte per cycle counts as one byte per cycle.
C18_DoneCycleByClampedBandwidth ==
    DmaLifecycle([len \in IssueLengths |->
                    Max(1, IF cfg.bw < cfg.bw_den THEN len
                           ELSE CeilDiv(len * cfg.bw_den, cfg.bw))])

\* three requests of 4 bytes at 3 bytes per cycle and latency 2, issued in
\* different engine cycles: the first has been collected, the second sits in
\* the completed list and the third is in flight
C18_CollectedCompletedInflight ==
    /\ cfg.bw = 3 /\ cfg.dram_latency = 2
    /\ Len(drv.tags) = 3
    /\ \A t \in 1..3 : drv.issued[t].length = 4
    /\ drv.issued[1].c < drv.issued[2].c /\ drv.issued[2].c < drv.issued[3].c
    /\ drv.returned[1] = 1
    /\ Len(dma.completed) = 1 /\ dma.completed[1].tag = 2
    /\ DOMAIN dma.inflight = {3}

\* C19: a DMA request that the prefetcher issues during simulator cycle t
\* (the step that brings cycle to t) has done_cycle >= t + DRAM_LATENCY + 1
\* and is not among the completions dispatched in that step: after the step
\* it is still in flight.
C19_IssuedNotCompletedInSameCycle ==
    [][\A tag \in dma.next_tag .. (dma'.next_tag - 1) :
          /\ tag \in DOMAIN dma'.inflight
          /\ dma'.inflight[tag].done_cycle >= cycle' + cfg.dram_latency + 1
      ]_vars

\* C20 as stated: with DRAM_LATENCY = 800 and 1024 bytes per cycle, the DMA
\* request issued for a single tile whose reference region is smaller than
\* one cycle's transfer (as a region of 64 bytes is) completes at
\* issue_cycle + 800 + 1, and the consumer's first pop happens no earlier
\* than that cycle.
C20_SmallRegionDoneAfterOneTransferCycle ==
    cfg = DefaultDramConfig =>
        \A g \in 1..Len(tiles[0]) :
            LET e == tiles[0][g].h_entry
            IN  (e # 0 /\ pf.entries[e].tag # 0 /\ pf.entries[e].h_length <= cfg.dram_bw) =>
                    /\ pf.entries[e].h_done_cycle = pf.entries[e].h_issue_cycle + cfg.dram_latency + 1
                    /\ consumers[0].consumed > 0 => cycle >= pf.entries[e].h_done_cycle

\* C20, amended: the request is issued for the region aligned to 4096 bytes,
\* so it completes at issue_cycle + 800 + 4 (a block of 4096 bytes at 1024
\* bytes per cycle), and the consumer's first pop happens no earlier than
\* that cycle.
C20_SmallRegionDoneAfterAlignedTransfer ==
    cfg = DefaultDramConfig =>
        \A g \in 1..Len(tiles[0]) :
            LET e == tiles[0][g].h_entry
            IN  (e # 0 /\ pf.entries[e].tag # 0 /\ pf.entries[e].h_length <= cfg.dram_bw) =>
                    /\ pf.entries[e].length = DRAM_ALIGNMENT
                    /\ pf.entries[e].h_done_cycle =
                           pf.entries[e].h_issue_cycle + cfg.dram_latency
                             + CeilDiv(DRAM_ALIGNMENT, cfg.dram_bw)
                    /\ consumers[0].consumed > 0 => cycle >= pf.entries[e].h_done_cycle

\* the single tile has been popped, in the cycle after its request's
\* done_cycle, 804 cycles after the issue
C20_PoppedAfterDefaultLatency ==
    /\ cfg = DefaultDramConfig
    /\ consumers[0].consumed = 1
    /\ LET e == tiles[0][1].h_entry
       IN  /\ pf.entries[e].h_length <= cfg.dram_bw
           /\ pf.entries[e].h_done_cycle = pf.entries[e].h_issue_cycle + 804
           /\ cycle = pf.entries[e].h_done_cycle + 1

\* C21 as stated: for two tiles whose aligned reference requests are adjacent
\* and together span 8 KiB (the blocks at 0 and at 4096) the second submission
\* is coalesced into the entry of the first: prefetch_coalesced = 1 and one
\* DMA request, covering both ranges, is issued for the two tiles.
C21_AdjacentTilesCoalesced ==
    (/\ drv.submits = 2
     /\ pf.entries[1].h_base = 0 /\ drv.last_base = 4100
     /\ pf.entries[1].request_type = drv.last_type) =>
        /\ drv.last_entry = 1
        /\ pf.requests_coalesced = 1
        /\ pf.entries[1].base_addr = 0 /\ pf.entries[1].length = 2 * DRAM_ALIGNMENT
        /\ dma.next_tag <= 2
        /\ \A tag \in DOMAIN dma.inflight :
              dma.inflight[tag].base_addr = 0
                /\ dma.inflight[tag].length = 2 * DRAM_ALIGNMENT

\* C21, amended: the second submission is coalesced into the entry of the
\* first exactly if that entry is still the tail of the pending queue when
\* the second is submitted (no issue step ran in between, or the issue step
\* was held back by max_outstanding); then prefetch_coalesced = 1 and one DMA
\* request, covering both ranges, is issued for the two tiles.  Otherwise the
\* second submission gets an entry and a DMA request of its own and
\* prefetch_coalesced stays 0.
C21_AdjacentTilesCoalescedWhilePending ==
    (/\ drv.submits = 2
     /\ pf.entries[1].h_base = 0 /\ drv.last_base = 4100
     /\ pf.entries[1].request_type = drv.last_type) =>
        IF drv.last_tail = 1
        THEN /\ drv.last_entry = 1
             /\ pf.requests_coalesced = 1
             /\ pf.entries[1].base_addr = 0 /\ pf.entries[1].length = 2 * DRAM_ALIGNMENT
             /\ dma.next_tag <= 2
             /\ \A tag \in DOMAIN dma.inflight :
                   dma.inflight[tag].base_addr = 0
                     /\ dma.inflight[tag].length = 2 * DRAM_ALIGNMENT
        ELSE /\ drv.last_tail = 0
             /\ drv.last_entry = 2
             /\ pf.requests_coalesced = 0
             /\ pf.entries[1].length = DRAM_ALIGNMENT
             /\ pf.entries[2].base_addr = DRAM_ALIGNMENT
             /\ pf.entries[2].length = DRAM_ALIGNMENT
             /\ pf.entries[2].h_base = 4100
             /\ \A tag \in DOMAIN dma.inflight :
                   dma.inflight[tag].length = DRAM_ALIGNMENT

\* the two tiles' one request, of 8 KiB at 0, is in flight
C21_OneRequestForTwoTiles ==
    /\ drv.submits = 2
    /\ pf.entries[1].h_base = 0 /\ drv.last_base = 4100
    /\ drv.last_entry = 1
    /\ pf.requests_coalesced = 1
    /\ dma.next_tag = 2
    /\ 1 \in DOMAIN dma.inflight
    /\ dma.inflight[1].base_addr = 0 /\ dma.inflight[1].length = 2 * DRAM_ALIGNMENT
    /\ pf.entries[1].linked_tiles = <<1, 2>>

\* C22: a submission of a region that a done entry of the same request type,
\* still in the table, covers (as when the region is submitted a second time
\* after its DMA has completed) is counted as a hit (requests_hits + 1),
\* returns a done entry of the table that covers it, leaves the pending queue
\* and the table unchanged, creates no entry and so causes no further DMA.
C22_ResubmissionAfterDoneIsHit ==
    [][(/\ drv'.submits = drv.submits + 1
        /\ \E k \in 1..Len(pf.ptable) :
              LET e == pf.entries[pf.ptable[k]]
              IN  /\ e.valid /\ e.status = "done"
                  /\ e.request_type = drv'.last_type
                  /\ e.base_addr <= drv'.last_base
                  /\ e.base_addr + e.length >= drv'.last_base + drv'.last_length) =>
          /\ pf'.requests_hits = pf.requests_hits + 1
          /\ pf'.requests_total = pf.requests_total + 1
          /\ pf'.requests_coalesced = pf.requests_coalesced
          /\ drv'.last_entry \in SeqToSet(pf.ptable)
          /\ LET e == pf.entries[drv'.last_entry]
             IN  /\ e.status = "done"
                 /\ e.request_type = drv'.last_type
                 /\ e.base_addr <= drv'.last_base
                 /\ e.base_addr + e.length >= drv'.last_base + drv'.last_length
          /\ pf'.prefetch_queue = pf.prefetch_queue
          /\ pf'.ptable = pf.ptable
          /\ Len(pf'.entries) = Len(pf.entries)
          /\ pf'.entries[drv'.last_entry].status = "done"
          /\ pf'.tag_to_entry = pf.tag_to_entry
          /\ dma' = dma
      ]_vars

\* a region has been submitted twice, the second time after the DMA of the
\* first submission had completed: one hit, one DMA request ever issued,
\* nothing pending and nothing in flight
C22_SecondSubmissionHit ==
    /\ drv.submits = 2
    /\ pf.requests_hits = 1
    /\ drv.last_entry = 1
    /\ pf.entries[1].status = "done"
    /\ pf.entries[1].h_base = drv.last_base
    /\ pf.entries[1].linked_tiles = <<1, 2>>
    /\ pf.prefetch_queue = << >>
    /\ dma.next_tag = 2
    /\ DOMAIN dma.inflight = {}

\* C23: the tiles of a frame are partitioned across the units: a tile
\* (row group, column tile) is issued to one unit only and once only, and the
\* k-th tile of the frame in row-major order (k = row group * column tiles per
\* row + column tile) is issued to unit k mod num_parallel_units.
C23_TilesPartitionedRoundRobin ==
    \A u \in Units(cfg) : \A g \in 1..Len(tiles[u]) :
        LET t == tiles[u][g]
            k == t.row_group_idx * producers[u].num_col_tiles + t.col_tile_idx
        IN  /\ k % cfg.num_parallel_units = u
            /\ \A v \in Units(cfg) : \A h \in 1..Len(tiles[v]) :
                  (tiles[v][h].row_group_idx = t.row_group_idx
                     /\ tiles[v][h].col_tile_idx = t.col_tile_idx) => (v = u /\ h = g)

\* The record that run returns for the cleanly completed run of one tile on
\* one unit (tile one column wide, 2 banks of 1 slot, DRAM latency 0 and
\* 4096 bytes per cycle): the tile is delivered in cycle 12 and popped in
\* cycle 13.
C24_CleanRunResult ==
    [stats |-> [StatsInit EXCEPT !.cycles = 13,
                                 !.groups_produced = 1, !.groups_consumed = 1,
                                 !.fifo_max_occupancy = 1,
                                 !.dma_bytes = 4096, !.dma_requests = 1,
                                 !.dma_reference_requests = 1,
                                 !.dpm_stall_cycles = 1, !.dpm_stall_reference = 1,
                                 !.prefetch_total = 1,
                                 !.sftm_compute_cycles = 11,
                                 !.dpm_compute_cycles = 191,
                                 !.dpm_macs = 11664],
     dma_outstanding_at_end |-> 0,
     fifo_overflow_count |-> 0,
     dram_bw |-> 4096,
     tile_columns |-> 1,
     num_col_tiles |-> 1920,
     row_groups |-> 270,
     num_parallel_units |-> 1,
     unit_cycles |-> [u \in {0} |-> 13]]

\* the run of one tile has completed cleanly and returns C24_CleanRunResult
C24_CleanRunReturnsIt ==
    /\ pc = "done"
    /\ cfg.groups_total = 1
    /\ stats.groups_consumed >= cfg.groups_total
    /\ cycle < cfg.max_cycles
    /\ Simulator_run_result(SimState) = C24_CleanRunResult

\* C24: when a run stops because cycle reached max_cycles before
\* groups_consumed >= groups_total, the record it returns has every
\* statistics field and tells that the run was cut short: it differs from the
\* record that a cleanly completed run returns.
C24_CappedRunFlagged ==
    (pc = "done" /\ stats.groups_consumed < cfg.groups_total) =>
        /\ cycle = cfg.max_cycles
        /\ DOMAIN Simulator_run_result(SimState).stats = DOMAIN StatsInit
        /\ Simulator_run_result(SimState) # C24_CleanRunResult

\* C28: when no input bank can hold the rows * cols * in_ch * ACTIVATION_BYTES
\* bytes of the job at the head of the queue, process_tile returns 0 and
\* leaves the queue, the bank usage, the output-buffer usage, the statistics
\* and the external memory as they were; try_alloc_bank takes the fitting bank
\* of least index and returns None only when no bank fits.
C28_NoBankLeavesAllUnchanged ==
    [][/\ (drv'.h_op = "process_tile" /\
           \A i \in 0..(SFTM_NUM_BANKS - 1) :
              drv.sftm.bank_used[i] +
                  Head(drv.sftm.job_queue).rows * Head(drv.sftm.job_queue).cols *
                  Head(drv.sftm.job_queue).in_ch * ACTIVATION_BYTES
                  > drv.sftm.bank_capacity)
          => /\ drv'.h_result = 0
             /\ drv'.sftm = drv.sftm
             /\ drv'.ext = drv.ext
             /\ stats' = stats
       /\ drv'.h_op = "try_alloc_bank"
          => LET b == drv'.h_bytes
                 i == drv'.h_idx
                 Fits(j) == drv.sftm.bank_used[j] + b <= drv.sftm.bank_capacity
             IN  IF i = -1
                 THEN /\ \A j \in 0..(SFTM_NUM_BANKS - 1) : ~Fits(j)
                      /\ drv'.sftm = drv.sftm
                 ELSE /\ Fits(i)
                      /\ \A j \in 0..(i - 1) : ~Fits(j)
                      /\ drv'.sftm.bank_used =
                             [drv.sftm.bank_used EXCEPT ![i] = @ + b]]_vars

\* process_tile has returned 0 for a head job that an empty bank would hold,
\* every bank being held by the caller
C28_TileWaitsForHeldBanks ==
    /\ drv.h_op = "process_tile"
    /\ drv.h_result = 0
    /\ drv.sftm.job_queue # << >>
    /\ Head(drv.sftm.job_queue).rows * Head(drv.sftm.job_queue).cols *
           Head(drv.sftm.job_queue).in_ch * ACTIVATION_BYTES <= drv.sftm.bank_capacity
    /\ Cardinality(drv.held) = SFTM_NUM_BANKS
    /\ stats.onchip_reads > 0

\* C29: a tile that process_tile starts has its rows * cols * out_ch *
\* ACTIVATION_BYTES output bytes added to output_used and onchip_writes, and
\* nothing written off-chip, when output_used + bytes_out <= output_capacity;
\* otherwise the bytes go to bytes_written_offchip and to the external memory,
\* ceil(bytes_out / bytes_per_cycle) cycles go to module_cycles['SFTM_mem'] and
\* output_used stays.  output_used never exceeds output_capacity and every
\* bank holds after the call what it held before.
C29_OutputOnChipElseOffChip ==
    [][(drv'.h_op = "process_tile" /\ drv'.h_result > 0)
          => LET job == Head(drv.sftm.job_queue)
                 bytes_out == job.rows * job.cols * job.out_ch * ACTIVATION_BYTES
                 mem == DictGet(stats.module_cycles, "SFTM_mem", 0)
                 mem2 == DictGet(stats'.module_cycles, "SFTM_mem", 0)
             IN  /\ IF drv.sftm.output_used + bytes_out <= drv.sftm.output_capacity
                    THEN /\ drv'.sftm.output_used = drv.sftm.output_used + bytes_out
                         /\ stats'.onchip_writes = stats.onchip_writes + bytes_out
                         /\ stats'.bytes_written_offchip = stats.bytes_written_offchip
                         /\ drv'.ext = drv.ext
                         /\ mem2 = mem
                    ELSE /\ drv'.sftm.output_used = drv.sftm.output_used
                         /\ stats'.onchip_writes = stats.onchip_writes
                         /\ stats'.bytes_written_offchip =
                                stats.bytes_written_offchip + bytes_out
                         /\ drv'.ext.bytes_written = drv.ext.bytes_written + bytes_out
                         /\ (mem2 - mem) * EXTERNAL_BYTES_PER_CYCLE >= bytes_out
                         /\ (mem2 - mem - 1) * EXTERNAL_BYTES_PER_CYCLE < bytes_out
                 /\ drv'.sftm.output_used <= drv'.sftm.output_capacity
                 /\ drv'.sftm.bank_used = drv.sftm.bank_used]_vars

\* one tile went to the output buffer and a later one off-chip, in a number
\* of memory cycles that bytes_per_cycle does not divide the bytes into
C29_TileWrittenOffChip ==
    /\ drv.sftm.output_used > 0
    /\ stats.bytes_written_offchip > 0
    /\ stats.bytes_written_offchip % EXTERNAL_BYTES_PER_CYCLE # 0
    /\ stats.onchip_writes = drv.sftm.output_used
    /\ drv.held # {}

\* C25: a tile of a layer with a cached SCU count vector takes PRETU_LATENCY +
\* max over the SCUs k of ceil(count[k] * patches / SCU_MULTIPLIERS) +
\* SCU_PIPELINE_LATENCY + POSTTU_LATENCY cycles, patches = ceil(rows / 2) *
\* ceil(cols / 2), and is credited patches times the number of mask nonzeros
\* as MACs.  Simulator.run: every tile its producers have issued has these
\* sftm_cycles, and sftm_macs is the sum of the MACs of the tiles produced.
C25_ProducedTilesCredited ==
    \A u \in DOMAIN producers :
        "RFConv0" \in DOMAIN producers[u].scu_counts_cache =>
            LET counts == producers[u].scu_counts_cache["RFConv0"]
                nonzeros == Len(cfg.mask_dir["RFConv0"])
                patches(t) == CeilDiv(ROWS_PER_GROUP, 2)
                                  * CeilDiv(t.col_end - t.col_start + 1, 2)
                crit(t) == t.sftm_cycles
                               - (PRETU_LATENCY + SCU_PIPELINE_LATENCY + POSTTU_LATENCY)
                RECURSIVE Macs(_)
                Macs(n) == IF n = 0 THEN 0
                           ELSE Macs(n - 1) + (IF tiles[u][n].sftm_done
                                               THEN patches(tiles[u][n]) * nonzeros ELSE 0)
            IN  /\ \A n \in DOMAIN tiles[u] :
                      /\ \A k \in DOMAIN counts :
                            CeilDiv(counts[k] * patches(tiles[u][n]), SCU_MULTIPLIERS)
                                <= crit(tiles[u][n])
                      /\ \E k \in DOMAIN counts :
                            CeilDiv(counts[k] * patches(tiles[u][n]), SCU_MULTIPLIERS)
                                = crit(tiles[u][n])
                /\ cfg.num_parallel_units = 1 => stats.sftm_macs = Macs(Len(tiles[u]))

\* a producer with cached counts has finished a tile whose critical SCU needs
\* more than one cycle
C25_CachedTileProduced ==
    /\ pc = "run"
    /\ "RFConv0" \in DOMAIN producers[0].scu_counts_cache
    /\ stats.groups_produced = 1
    /\ tiles[0][1].sftm_done
    /\ tiles[0][1].sftm_cycles
           > PRETU_LATENCY + 1 + SCU_PIPELINE_LATENCY + POSTTU_LATENCY

\* C25 for SFTM.process_tile: the cycles returned for a tile of a cached layer
\* are the critical-path formula, and mac_counts[layer] grows by patches times
\* the number of mask nonzeros.
C25_CachedTileCyclesInSftm ==
    [][(/\ drv'.h_op = "process_tile"
        /\ drv'.h_result > 0
        /\ Head(drv.sftm.job_queue).layer \in DOMAIN drv.sftm.scu_counts_cache)
          => LET job == Head(drv.sftm.job_queue)
                 counts == drv.sftm.scu_counts_cache[job.layer]
                 patches == CeilDiv(job.rows, 2) * CeilDiv(job.cols, 2)
                 crit == drv'.h_result
                             - (PRETU_LATENCY + SCU_PIPELINE_LATENCY + POSTTU_LATENCY)
             IN  /\ \A k \in DOMAIN counts :
                       CeilDiv(counts[k] * patches, SCU_MULTIPLIERS) <= crit
                 /\ \E k \in DOMAIN counts :
                       CeilDiv(counts[k] * patches, SCU_MULTIPLIERS) = crit
                 /\ stats'.mac_counts[job.layer] =
                        DictGet(stats.mac_counts, job.layer, 0)
                            + patches * drv.h_nonzeros[job.layer]]_vars

\* a tile with odd sides of a cached layer has been processed
C25_CachedOddTileInSftm ==
    /\ "RFConv1" \in DOMAIN drv.sftm.scu_counts_cache
    /\ "RFConv1" \in DOMAIN stats.mac_counts
    /\ stats.mac_counts["RFConv1"] = 6 * drv.h_nonzeros["RFConv1"]

\* C26: a tile of an RF layer without cached mask takes PRETU_LATENCY + max
\* over the SCU rows r of ceil(oc(r) * base_mults_per_out / SCU_MULTIPLIERS) +
\* SCU_PIPELINE_LATENCY + POSTTU_LATENCY cycles, oc(r) = min(C_out, (r + 1) *
\* out_per_row) - r * out_per_row, out_per_row = ceil(C_out / POF),
\* base_mults_per_out = total_mults div C_out, total_mults = patches * C_out
\* * 6 for RFConv.  Simulator.run: every tile issued by a producer without
\* cached counts (layer RFConv0, CHANNELS output channels) has these
\* sftm_cycles.
C26_AnalyticTileCycles ==
    \A u \in DOMAIN producers :
        "RFConv0" \notin DOMAIN producers[u].scu_counts_cache =>
            \A n \in DOMAIN tiles[u] :
                LET t == tiles[u][n]
                    patches == CeilDiv(ROWS_PER_GROUP, 2)
                                   * CeilDiv(t.col_end - t.col_start + 1, 2)
                    C_out == CHANNELS
                    total_mults == patches * C_out * 6
                    base_mults_per_out == total_mults \div C_out
                    out_per_row == CeilDiv(C_out, POF)
                    oc(r) == Min(C_out, (r + 1) * out_per_row) - r * out_per_row
                    crit == t.sftm_cycles
                                - (PRETU_LATENCY + SCU_PIPELINE_LATENCY + POSTTU_LATENCY)
                IN  /\ \A r \in 0..(POF - 1) :
                          CeilDiv(oc(r) * base_mults_per_out, SCU_MULTIPLIERS) <= crit
                    /\ \E r \in 0..(POF - 1) :
                          CeilDiv(oc(r) * base_mults_per_out, SCU_MULTIPLIERS) = crit

\* a producer without cached counts has finished a tile
C26_AnalyticTileProduced ==
    /\ pc = "run"
    /\ producers[0].scu_counts_cache = EmptyDict
    /\ stats.groups_produced = 1
    /\ tiles[0][1].sftm_done
    /\ stats.sftm_compute_cycles = tiles[0][1].sftm_cycles

\* C26 for SFTM.process_tile: the cycles returned for a tile of an RFConv or
\* RFDeConv layer that has no cached counts are the row formula, with 6 or 18
\* multiplies for each patch and output channel.
C26_AnalyticTileCyclesInSftm ==
    [][(/\ drv'.h_op = "process_tile"
        /\ drv'.h_result > 0
        /\ Head(drv.sftm.job_queue).layer \notin DOMAIN drv.sftm.scu_counts_cache
        /\ Head(drv.sftm.job_queue).type \in {"RFConv", "RFDeConv"})
          => LET job == Head(drv.sftm.job_queue)
                 patches == CeilDiv(job.rows, 2) * CeilDiv(job.cols, 2)
                 C_out == job.out_ch
                 total_mults == patches * C_out * (IF job.type = "RFConv" THEN 6 ELSE 18)
                 base_mults_per_out == total_mults \div C_out
                 out_per_row == CeilDiv(C_out, POF)
                 oc(r) == Min(C_out, (r + 1) * out_per_row) - r * out_per_row
                 crit == drv'.h_result
                             - (PRETU_LATENCY + SCU_PIPELINE_LATENCY + POSTTU_LATENCY)
             IN  /\ \A r \in 0..(POF - 1) :
                       CeilDiv(oc(r) * base_mults_per_out, SCU_MULTIPLIERS) <= crit
                 /\ \E r \in 0..(POF - 1) :
                       CeilDiv(oc(r) * base_mults_per_out, SCU_MULTIPLIERS) = crit
                 /\ stats'.mac_counts[job.layer] =
                        DictGet(stats.mac_counts, job.layer, 0) + total_mults]_vars

\* tiles of an RFConv layer with 5 output channels and of an RFDeConv layer
\* have been processed without cached counts
C26_AnalyticTilesInSftm ==
    /\ drv.sftm.scu_counts_cache = EmptyDict
    /\ "RFConv1" \in DOMAIN stats.mac_counts
    /\ "RFDeConv0" \in DOMAIN stats.mac_counts

\* The stall counters in one Simulator.step.  A unit waits in the step when
\* its FIFO is not empty once its producer has acted and its consumer pops
\* nothing; the head then lacks a flag as the consumer reads it: motion_ready
\* after the producer has acted, reference_ready as it was before the step
\* (completions are dispatched after the units).  The counters grow by the
\* number of waiting units whose head lacks the flag, the waiting units being
\* all of them (whenever) or those with a consumer that is ready.
StallCounters(whenever) ==
    cycle' = cycle + 1 =>
          LET front(u) == BankedGroupFIFO_peek(fifos'[u])
              ready(u) == /\ consumers[u].cycle + 1 >= consumers[u].next_consume
                          /\ consumers[u].cycle + 1 >= consumers[u].dpm_busy_until
              waits(u) == /\ front(u) # 0
                          /\ consumers'[u].consumed = consumers[u].consumed
                          /\ whenever \/ ready(u)
              no_motion == {u \in Units(cfg) :
                               waits(u) /\ ~tiles'[u][front(u)].motion_ready}
              no_reference == {u \in Units(cfg) :
                                  waits(u) /\ ~tiles[u][front(u)].reference_ready}
          IN  /\ stats'.dpm_stall_motion = stats.dpm_stall_motion + Cardinality(no_motion)
              /\ stats'.dpm_stall_reference =
                     stats.dpm_stall_reference + Cardinality(no_reference)

C30_EveryJobFitsAndIsProcessed ==
    /\ \A i \in DOMAIN drv.cores :
          \A n \in DOMAIN drv.cores[i].sftm.job_queue :
              LET job == drv.cores[i].sftm.job_queue[n]
              IN  job.rows * job.cols * job.in_ch * ACTIVATION_BYTES
                      <= drv.cores[i].sftm.bank_capacity
    /\ (pc = "done" /\ stats.cycles <= cfg.cycle_limit)
          => \A i \in DOMAIN drv.cores : drv.cores[i].sftm.job_queue = << >>

\* run has returned, with tiles processed, while an SFTM still holds a job
\* that no bank can take
C30_RunReturnsWithJobsQueued ==
    /\ pc = "done"
    /\ stats.cycles > 0
    /\ stats.cycles <= cfg.cycle_limit
    /\ \E i \in DOMAIN drv.cores :
          /\ drv.cores[i].sftm.job_queue # << >>
          /\ Head(drv.cores[i].sftm.job_queue).rows * Head(drv.cores[i].sftm.job_queue).cols
                 * Head(drv.cores[i].sftm.job_queue).in_ch * ACTIVATION_BYTES
                 > drv.cores[i].sftm.bank_capacity

\* C31: a submission that no done entry covers and whose aligned range
\* overlaps a valid entry of its type with status pending or inflight creates
\* no table entry and no DMA: the call returns such an entry (the first in
\* table order), appends the destination to its dest list, and leaves its
\* base, length, status and tag, every other entry, the table, the pending
\* queue and the DMA engine as they were; it counts neither as a hit nor as
\* coalesced.
C31_OverlapAttachesToEntry ==
    [][LET al == SplitPrefetcher_align(pf, drv'.last_base, drv'.last_length)
           Done(e) == /\ e.valid /\ e.request_type = drv'.last_type
                      /\ e.status = "done"
                      /\ e.base_addr <= al[1]
                      /\ e.base_addr + e.length >= al[1] + al[2]
           Overlaps(e) == /\ e.valid /\ e.request_type = drv'.last_type
                          /\ e.status \in {"pending", "inflight"}
                          /\ e.base_addr < al[1] + al[2]
                          /\ al[1] < e.base_addr + e.length
           InTable(Test(_)) == {k \in 1..Len(pf.ptable) : Test(pf.entries[pf.ptable[k]])}
       IN  (/\ drv'.submits = drv.submits + 1
            /\ InTable(Done) = {}
            /\ InTable(Overlaps) # {}) =>
              LET e == drv'.last_entry
              IN  /\ e = pf.ptable[SetMin(InTable(Overlaps))]
                  /\ pf'.entries[e].dest_banks
                         = Append(pf.entries[e].dest_banks, drv'.last_dest)
                  /\ pf'.entries[e].base_addr = pf.entries[e].base_addr
                  /\ pf'.entries[e].length = pf.entries[e].length
                  /\ pf'.entries[e].status = pf.entries[e].status
                  /\ pf'.entries[e].tag = pf.entries[e].tag
                  /\ Len(pf'.entries) = Len(pf.entries)
                  /\ \A o \in 1..Len(pf.entries) : o # e => pf'.entries[o] = pf.entries[o]
                  /\ pf'.ptable = pf.ptable
                  /\ pf'.prefetch_queue = pf.prefetch_queue
                  /\ pf'.tag_to_entry = pf.tag_to_entry
                  /\ pf'.requests_total = pf.requests_total + 1
                  /\ pf'.requests_hits = pf.requests_hits
                  /\ pf'.requests_coalesced = pf.requests_coalesced
                  /\ dma' = dma
      ]_vars

\* a submission of bytes 4000..4199 (blocks 0 and 1) met the tile-1 entry for
\* block 0 in flight: it was attached to that entry, whose DMA request is the
\* only one
C31_AttachedToInflightEntry ==
    /\ drv.submits = 2
    /\ drv.last_base = 4000
    /\ drv.last_entry = 1
    /\ pf.entries[1].h_base = 0
    /\ pf.entries[1].status = "inflight"
    /\ pf.entries[1].length = DRAM_ALIGNMENT
    /\ pf.entries[1].dest_banks = << <<1, 0>>, <<0, 1>> >>
    /\ pf.entries[1].linked_tiles = <<1, 2>>
    /\ Len(pf.entries) = 1
    /\ pf.prefetch_queue = << >>
    /\ pf.requests_coalesced = 0 /\ pf.requests_hits = 0
    /\ dma.next_tag = 2

\* C32: the prefetch table never holds more than ptable_entries entries;
\* a submission that gets a fresh entry while the table is full removes from
\* the table the first entry, in table order, whose status is not inflight,
\* or, when every entry of the table is inflight, the entry at index 0; the
\* other entries keep their order and the fresh entry goes to the end.
C32_TableBoundedAndEvictsFirstNotInflight ==
    [][/\ Len(pf'.ptable) <= pf'.ptable_entries
       /\ (/\ Len(pf'.entries) = Len(pf.entries) + 1
           /\ Len(pf.ptable) = pf.ptable_entries) =>
             LET NotInflight == {k \in 1..Len(pf.ptable) :
                                    pf.entries[pf.ptable[k]].status # "inflight"}
                 victim == IF NotInflight # {} THEN SetMin(NotInflight) ELSE 1
             IN  /\ pf'.ptable = Append(RemoveAt(pf.ptable, victim), Len(pf'.entries))
                 /\ drv'.last_entry = Len(pf'.entries)
      ]_vars

\* the table of two entries was full, its first entry in flight and its
\* second still pending, when the third submission needed a fresh entry: the
\* second entry was evicted and the in-flight one kept
C32_SecondEntryEvictedFirstInflight ==
    /\ cfg.ptable_entries = 2
    /\ drv.submits = 3
    /\ pf.ptable = <<1, 3>>
    /\ pf.entries[1].status = "inflight"
    /\ pf.entries[2].status = "pending"
    /\ drv.last_entry = 3

\* C33: for every tile resident in a FIFO, the (bank, local_slot) destination
\* passed to the prefetcher for the tile's reference request is the slot the
\* FIFO assigned to the tile when it was pushed, tile_to_slot[gid].
C33_DestIsPushSlot ==
    \A u \in Units(cfg) : \A g \in SeqToSet(fifos[u].queue) :
        tiles[u][g].h_dest # << >> => tiles[u][g].h_dest = fifos[u].tile_to_slot[g]

\* the first tile of unit 0 went into the empty FIFO of two banks, at slot
\* (0, 0), and its reference request was submitted
C33_FirstTilePushedAndSubmitted ==
    /\ fifos[0].banks = 2
    /\ fifos[0].queue = <<1>>
    /\ fifos[0].push_success = 1
    /\ fifos[0].tile_to_slot[1] = <<0, 0>>
    /\ tiles[0][1].h_entry # 0
    /\ tiles[0][1].h_dest # << >>

\* C34: pop removes the head of the queue and clears the slot-table entry of
\* the departing tile only: every tile that remains resident keeps its
\* tile_to_slot entry, and the gid in bank_slots and the valid bit at its slot
\* are as they were before the pop.
C34_PopClearsOnlyDepartingSlot ==
    [][fifos'[0].pop_success = fifos[0].pop_success + 1 =>
          /\ fifos'[0].queue = Tail(fifos[0].queue)
          /\ Head(fifos[0].queue) \notin DOMAIN fifos'[0].tile_to_slot
          /\ \A g \in SeqToSet(fifos'[0].queue) :
                LET slot == fifos[0].tile_to_slot[g]
                IN  /\ fifos'[0].tile_to_slot[g] = slot
                    /\ fifos'[0].bank_slots[slot[1]][slot[2]]
                           = fifos[0].bank_slots[slot[1]][slot[2]]
                    /\ fifos'[0].valid_bits[slot[1]][slot[2]]
                           = fifos[0].valid_bits[slot[1]][slot[2]]
      ]_vars

\* tile 1 has been popped while tile 2 stays resident at its slot (1, 0)
C34_HeadPoppedSecondResident ==
    /\ fifos[0].pop_success = 1
    /\ fifos[0].queue = <<2>>
    /\ DOMAIN fifos[0].tile_to_slot = {2}
    /\ fifos[0].tile_to_slot[2] = <<1, 0>>
    /\ fifos[0].bank_slots[1][0] = 2
    /\ fifos[0].valid_bits[1][0]

\* C35: every tile resident in a FIFO has sftm_done and motion_ready set;
\* dpm_stall_motion is 0 and dpm_stall_cycles equals dpm_stall_reference in
\* every state of every run.
C35_ResidentTilesMotionReady ==
    /\ \A u \in Units(cfg) : \A g \in SeqToSet(fifos[u].queue) :
          tiles[u][g].sftm_done /\ tiles[u][g].motion_ready
    /\ stats.dpm_stall_motion = 0
    /\ stats.dpm_stall_cycles = stats.dpm_stall_reference

\* the consumer has stalled twice on a resident head that has motion_ready
\* and still waits for its reference data
C35_StalledOnReferenceOnly ==
    /\ fifos[0].queue # << >>
    /\ tiles[0][Head(fifos[0].queue)].motion_ready
    /\ ~tiles[0][Head(fifos[0].queue)].reference_ready
    /\ stats.dpm_stall_cycles = 2
    /\ stats.dpm_stall_reference = 2

\* C36: every entry waiting in the pending queue of the prefetcher is a valid
\* entry of the prefetch table with status pending (allocate_ptable removes no
\* entry that is still queued for issue).
C36_QueuedEntriesInTable ==
    \A k \in 1..Len(pf.prefetch_queue) :
        LET e == pf.prefetch_queue[k]
        IN  /\ e \in SeqToSet(pf.ptable)
            /\ pf.entries[e].valid
            /\ pf.entries[e].status = "pending"

\* two entries wait in the pending queue behind a request in flight, the
\* issue loop being held at max_outstanding = 1
C36_TwoEntriesQueued ==
    /\ cfg.max_outstanding = 1
    /\ Len(pf.prefetch_queue) = 2
    /\ DOMAIN dma.inflight # {}
    /\ \A k \in 1..2 : pf.entries[pf.prefetch_queue[k]].status = "pending"

\* C37: tile ids are unique across the simulation: no two tiles of any units
\* share a gid, the gids of one producer are strictly increasing, and
\* tile_registry[gid] is the one tile with that gid, for every tile delivered.
C37_GidsUniqueAcrossUnits ==
    /\ \A u, v \in Units(cfg) : \A g \in 1..Len(tiles[u]) : \A h \in 1..Len(tiles[v]) :
          tiles[u][g].gid = tiles[v][h].gid => (u = v /\ g = h)
    /\ \A u \in Units(cfg) : \A g, h \in 1..Len(tiles[u]) :
          g < h => tiles[u][g].gid < tiles[u][h].gid
    /\ \A u \in Units(cfg) : \A g \in 1..Len(tiles[u]) :
          tiles[u][g].h_produced # 0 =>
             /\ tiles[u][g].gid \in DOMAIN tile_registry
             /\ tile_registry[tiles[u][g].gid] = u

\* both units of a two-unit simulator have delivered their first tile
C37_TwoUnitsDelivered ==
    /\ cfg.num_parallel_units = 2
    /\ \A u \in {0, 1} : Len(tiles[u]) >= 1 /\ tiles[u][1].h_produced # 0
    /\ DOMAIN tile_registry # {}

\* C38: the number of tiles produced by all units together never exceeds
\* groups_total: groups_produced <= groups_total in every state.
C38_ProducedWithinGroupsTotal ==
    stats.groups_produced <= cfg.groups_total

\* two units have produced the two tiles of groups_total = 2 between them,
\* one each
C38_AllGroupsProducedByTwoUnits ==
    /\ cfg.num_parallel_units = 2
    /\ cfg.groups_total = 2
    /\ stats.groups_produced = 2
    /\ \A u \in {0, 1} : producers[u].issued = 1 /\ producers[u].active_tile = 0

\* C39: within one unit the tiles are consumed in the order in which they
\* were pushed, which is the order of their gids: the tiles resident in a FIFO
\* are queued by increasing gid, a pop takes the head of the queue and hands
\* it to the consumer, and the tiles pushed after it stay resident.
C39_ConsumedInPushOrder ==
    [][\A u \in Units(cfg) :
          /\ \A i, j \in 1..Len(fifos'[u].queue) :
                i < j => fifos'[u].queue[i] < fifos'[u].queue[j]
          /\ fifos'[u].pop_success # fifos[u].pop_success =>
                /\ fifos[u].queue # << >>
                /\ consumers'[u].active_tile = Head(fifos[u].queue)
                /\ \A g \in SeqToSet(fifos[u].queue) :
                      g # Head(fifos[u].queue) =>
                         /\ g > Head(fifos[u].queue)
                         /\ g \in SeqToSet(fifos'[u].queue)
      ]_vars

\* the consumer is free again after the first tile; the head, tile 2, still
\* lacks its reference data while tile 3 behind it has it: nothing is popped
\* and the cycle is counted as a reference stall
C39_ReadyTileWaitsBehindHead ==
    /\ fifos[0].queue = <<2, 3>>
    /\ ~tiles[0][2].reference_ready
    /\ tiles[0][3].reference_ready /\ tiles[0][3].motion_ready
    /\ ConsumerDPM_ready_to_consume(consumers[0])
    /\ fifos[0].pop_success = 1
    /\ stats.groups_consumed = 1
    /\ stats.dpm_stall_reference >= 2

\* tile 2 has been popped, second, while tile 3 was resident and ready
C39_SecondPoppedBeforeThird ==
    /\ fifos[0].queue = <<3>>
    /\ tiles[0][3].reference_ready
    /\ consumers[0].active_tile = 2
    /\ stats.groups_consumed = 2

\* C40: whenever a tile has reference_ready, a reference DMA has completed
\* whose range [base, base + length) contains the whole aligned reference
\* region of the tile (the entry of that DMA is done and its range is the
\* range that was issued).
C40_ReadyOnlyAfterCoveringDma ==
    \A u \in Units(cfg) : \A g \in 1..Len(tiles[u]) :
        tiles[u][g].reference_ready =>
            LET reg == Simulator_compute_reference_region_for_tile(tiles[u][g])
                al == SplitPrefetcher_align(pf, reg[1], reg[2])
            IN  \E e \in 1..Len(pf.entries) :
                    /\ pf.entries[e].status = "done"
                    /\ pf.entries[e].request_type = "reference"
                    /\ pf.entries[e].base_addr <= al[1]
                    /\ pf.entries[e].base_addr + pf.entries[e].length >= al[1] + al[2]

\* a tile whose aligned region is the two blocks [0, 8192) has reference_ready
\* and was linked to an entry of its own, whose DMA of 8192 bytes is done
C40_TileReadyAfterOwnDma ==
    \E g \in 1..Len(tiles[0]) :
        /\ tiles[0][g].reference_ready
        /\ tiles[0][g].h_entry # 0
        /\ pf.entries[tiles[0][g].h_entry].status = "done"
        /\ pf.entries[tiles[0][g].h_entry].base_addr = 0
        /\ pf.entries[tiles[0][g].h_entry].length = 2 * DRAM_ALIGNMENT
        /\ pf.entries[tiles[0][g].h_entry].linked_tiles = <<g>>

====
